---- MODULE Spec2Model ----
(***************************************************************************)
(* A model of retrowin32: the address space (win32/src/windows.rs), the    *)
(* early interpreter (win32/src/x86.rs), the register file                 *)
(* (x86/src/registers.rs) and the generic integer core                     *)
(* (x86/src/ops/math.rs).                                                  *)
(*                                                                         *)
(* Machine integers.  TLC's integers are 32-bit signed, so a u8/u16/u32 is *)
(* a sequence of bits, least significant first: bit i of the Rust value is *)
(* element i+1.  Arithmetic is carried out bit by bit and keeps the width  *)
(* of the Rust type; an overflow is reported beside the wrapped result, as *)
(* Rust's overflowing_* functions do.                                      *)
(***************************************************************************)
EXTENDS Integers, Sequences, FiniteSets, TLC

VARIABLES
    overflow_checks,  \* the build: TRUE = debug (overflow panics), FALSE = release (wraps)
    panicked,         \* the process has panicked (assert!, panic!, overflow, index out of bounds)
    mappings,         \* AppState.mappings
    mem,              \* X86.mem (win32/src/x86.rs): [len, bytes]
    regs,             \* X86.regs (win32/src/x86.rs)
    imports,          \* X86.imports
    registers,        \* Registers (x86/src/registers.rs)
    call,             \* the last call made by the driver, and what it returned
    steps             \* number of calls made so far

vars == <<overflow_checks, panicked, mappings, mem, regs, imports, registers, call, steps>>

---------------------------------------------------------------------------
(* Bounds of the model. *)

\* the longest mapping list the address-space specification builds
MaxMappings == 4
\* the number of driver calls in a run of the interpreter specification
MaxSteps == 2
\* the number of register-file calls in a run of the register specification
MaxCalls == 2

---------------------------------------------------------------------------
(* Machine words. *)

RECURSIVE NatBits(_, _)
\* the W low bits of the natural n (n < 2^31)
NatBits(n, W) == IF W = 0 THEN <<>> ELSE <<n % 2>> \o NatBits(n \div 2, W - 1)

u8(n) == NatBits(n, 8)
u16(n) == NatBits(n, 16)
\* a u32 literal 0xHHHH_LLLL from its two halves
u32(hi, lo) == NatBits(lo, 16) \o NatBits(hi, 16)

RECURSIVE ToNat(_)
\* the value of a word as a natural; only for words below 2^31
ToNat(w) == IF w = <<>> THEN 0 ELSE Head(w) + 2 * ToNat(Tail(w))

\* Int::bits
bits(w) == Len(w)

is_zero(w) == \A i \in 1..Len(w) : w[i] = 0
is_one(w) == Len(w) > 0 /\ w[1] = 1 /\ \A i \in 2..Len(w) : w[i] = 0

BitAnd(x, y) == [i \in 1..Len(x) |-> x[i] * y[i]]
BitOr(x, y) == [i \in 1..Len(x) |-> IF x[i] + y[i] > 0 THEN 1 ELSE 0]
BitXor(x, y) == [i \in 1..Len(x) |-> (x[i] + y[i]) % 2]
BitNot(x) == [i \in 1..Len(x) |-> 1 - x[i]]

\* x >> k and x << k for 0 <= k < bits
Shr(x, k) == [i \in 1..Len(x) |-> IF i + k <= Len(x) THEN x[i + k] ELSE 0]
Shl(x, k) == [i \in 1..Len(x) |-> IF i - k >= 1 THEN x[i - k] ELSE 0]

\* `as` casts between unsigned widths: truncation, zero extension
Trunc(x, W) == SubSeq(x, 1, W)
ZeroExt(x, W) == x \o [i \in 1..(W - Len(x)) |-> 0]

RECURSIVE AddCarry(_, _, _)
\* the bits of x + y + c, followed by the carry out
AddCarry(x, y, c) ==
    IF x = <<>> THEN <<c>>
    ELSE LET s == Head(x) + Head(y) + c
         IN  <<s % 2>> \o AddCarry(Tail(x), Tail(y), s \div 2)

\* u32::overflowing_add and friends: the wrapped sum and whether it overflowed
overflowing_add(x, y) ==
    LET r == AddCarry(x, y, 0)
    IN  [result |-> SubSeq(r, 1, Len(x)), carry |-> r[Len(x) + 1] = 1]

\* overflowing_sub: x - y = x + !y + 1; it borrows when that sum does not carry
overflowing_sub(x, y) ==
    LET r == AddCarry(x, BitNot(y), 1)
    IN  [result |-> SubSeq(r, 1, Len(x)), carry |-> r[Len(x) + 1] = 0]

wrapping_add(x, y) == overflowing_add(x, y).result

RECURSIVE Lt(_, _)
\* unsigned x < y
Lt(x, y) ==
    IF x = <<>> THEN FALSE
    ELSE LET n == Len(x)
         IN  IF x[n] # y[n] THEN x[n] < y[n]
             ELSE Lt(SubSeq(x, 1, n - 1), SubSeq(y, 1, n - 1))

Gt(x, y) == Lt(y, x)
Le(x, y) == ~Lt(y, x)

---------------------------------------------------------------------------
(* win32/src/windows.rs: the address space. *)

NULL_POINTER_REGION_SIZE == u32(0, \h1000)

Mapping(addr, size, desc) == [addr |-> addr, size |-> size, desc |-> desc]

\* AppState::new
AppState_new == <<Mapping(u32(0, 0), NULL_POINTER_REGION_SIZE, "avoid null pointers")>>

\* Vec::insert(pos, m), pos counted from 1
Insert(ms, pos, m) == SubSeq(ms, 1, pos - 1) \o <<m>> \o SubSeq(ms, pos, Len(ms))

\* iter().position(|m| m.addr > mapping.addr).unwrap_or(len), counted from 1
position(ms, mapping) ==
    LET hits == {i \in 1..Len(ms) : Gt(ms[i].addr, mapping.addr)}
    IN  IF hits = {} THEN Len(ms) + 1
        ELSE CHOOSE i \in hits : \A j \in hits : i <= j

\* The outcome of add_mapping: the new list, or a panic (a failed assert!, or
\* an overflowing `+` in a build with overflow checks).
add_mapping(ms, mapping, checks) ==
    LET pos == position(ms, mapping)
        prev == ms[pos - 1]
        next == ms[pos]
        prev_end == overflowing_add(prev.addr, prev.size)
        new_end == overflowing_add(mapping.addr, mapping.size)
        prev_panics ==
            pos > 1 /\ (\/ (prev_end.carry /\ checks)
                        \/ ~Le(prev_end.result, mapping.addr))
        next_panics ==
            pos <= Len(ms) /\ (\/ (new_end.carry /\ checks)
                               \/ ~Le(new_end.result, next.addr))
    IN  IF prev_panics \/ next_panics
        THEN [panic |-> TRUE, mappings |-> ms]
        ELSE [panic |-> FALSE, mappings |-> Insert(ms, pos, mapping)]

\* mapping.addr + mapping.size + (0x1000 - 1) & !(0x1000 - 1): `+` binds
\* tighter than `&`
round_end(mapping) ==
    LET mask == u32(0, \h0FFF)
        s1 == overflowing_add(mapping.addr, mapping.size)
        s2 == overflowing_add(s1.result, mask)
    IN  [result |-> BitAnd(s2.result, BitNot(mask)), carry |-> s1.carry \/ s2.carry]

RECURSIVE alloc_scan(_, _, _, _, _)
\* The loop of alloc from position pos on, with the running `end`: where the
\* new mapping goes, or a panic.
alloc_scan(ms, pos, end, size, checks) ==
    IF pos > Len(ms) THEN [panic |-> TRUE, pos |-> 0, addr |-> end]
    ELSE LET mapping == ms[pos]
             space == overflowing_sub(mapping.addr, end)
             next_end == round_end(mapping)
         IN  IF space.carry /\ checks THEN [panic |-> TRUE, pos |-> 0, addr |-> end]
             ELSE IF Gt(space.result, size) THEN [panic |-> FALSE, pos |-> pos, addr |-> end]
             ELSE IF next_end.carry /\ checks THEN [panic |-> TRUE, pos |-> 0, addr |-> end]
             ELSE alloc_scan(ms, pos + 1, next_end.result, size, checks)

\* The outcome of alloc: the new list and the mapping returned, or a panic.
alloc(ms, size, desc, checks) ==
    LET found == alloc_scan(ms, 1, u32(0, 0), size, checks)
        new == Mapping(found.addr, size, desc)
    IN  IF found.panic
        THEN [panic |-> TRUE, mappings |-> ms, ret |-> new]
        ELSE [panic |-> FALSE, mappings |-> Insert(ms, found.pos, new), ret |-> new]

---------------------------------------------------------------------------
(* win32/src/x86.rs: registers and memory of the early interpreter. *)

GP32 == {"EAX", "EBX", "ECX", "EDX", "ESP", "EBP", "ESI", "EDI"}

\* Registers::new, then the sentinel words X86::new stores
X86_new_regs ==
    [eax |-> u32(\hdead, \hbeea), ebx |-> u32(\hdead, \hbeeb),
     ecx |-> u32(\hdead, \hbeec), edx |-> u32(\hdead, \hbeed),
     esp |-> u32(0, 0), ebp |-> u32(0, 0),
     esi |-> u32(\hdead, \hbe51), edi |-> u32(\hdead, \hbed1),
     eip |-> u32(0, 0),
     cs |-> u16(0), ds |-> u16(0), es |-> u16(0),
     fs |-> u16(0), gs |-> u16(0), ss |-> u16(0)]

\* X86::new: no memory, no imports
X86_new == [mem |-> [len |-> 0, bytes |-> <<>>], regs |-> X86_new_regs,
            imports |-> <<>>, panic |-> FALSE]

\* Registers::get: the register's word, or todo!() for any other register
regs_get_ok(name) == name \in GP32 \cup {"None"}
regs_get(r, name) ==
    CASE name = "None" -> u32(0, 0)
      [] name = "EAX" -> r.eax
      [] name = "EBX" -> r.ebx
      [] name = "ECX" -> r.ecx
      [] name = "EDX" -> r.edx
      [] name = "ESP" -> r.esp
      [] name = "EBP" -> r.ebp
      [] name = "ESI" -> r.esi
      [] name = "EDI" -> r.edi
      [] OTHER -> u32(0, 0)

\* Registers::set
regs_set_ok(name) == name \in GP32
regs_set(r, name, value) ==
    CASE name = "EAX" -> [r EXCEPT !.eax = value]
      [] name = "EBX" -> [r EXCEPT !.ebx = value]
      [] name = "ECX" -> [r EXCEPT !.ecx = value]
      [] name = "EDX" -> [r EXCEPT !.edx = value]
      [] name = "ESP" -> [r EXCEPT !.esp = value]
      [] name = "EBP" -> [r EXCEPT !.ebp = value]
      [] name = "ESI" -> [r EXCEPT !.esi = value]
      [] name = "EDI" -> [r EXCEPT !.edi = value]
      [] OTHER -> r

\* X86.mem is a Vec<u8>; the model keeps its length and its non-zero bytes
mem_get(m, a) == IF a \in DOMAIN m.bytes THEN m.bytes[a] ELSE 0
mem_set(m, a, b) ==
    LET old == m.bytes
        dom == IF b = 0 THEN DOMAIN old \ {a} ELSE DOMAIN old \cup {a}
    IN  [m EXCEPT !.bytes = [x \in dom |-> IF x = a THEN b ELSE old[x]]]

\* whether mem[offset as usize + k] is inside the vector (it panics otherwise);
\* the model's memory is shorter than 2^30 bytes
index_ok(m, offset, k) ==
    /\ offset[32] = 0 /\ offset[31] = 0
    /\ ToNat(offset) + k < m.len

\* (value >> sh) as u8
byte_of(value, sh) == ToNat(Trunc(Shr(value, sh), 8))

\* X86::write_u32 on the machine x
write_u32(x, offset, value) ==
    IF ~index_ok(x.mem, offset, 3) THEN [x EXCEPT !.panic = TRUE]
    ELSE LET o == ToNat(offset)
             m0 == mem_set(x.mem, o, byte_of(value, 0))
             m1 == mem_set(m0, o + 1, byte_of(value, 8))
             m2 == mem_set(m1, o + 2, byte_of(value, 16))
             m3 == mem_set(m2, o + 3, byte_of(value, 24))
         IN  [x EXCEPT !.mem = m3]

\* X86::read_u32: the four bytes at offset, least significant first
read_ok(x, offset) == index_ok(x.mem, offset, 3)
read_u32(x, offset) ==
    IF ~read_ok(x, offset) THEN u32(0, 0)
    ELSE LET o == ToNat(offset)
         IN  BitOr(BitOr(Shl(ZeroExt(u8(mem_get(x.mem, o)), 32), 0),
                         Shl(ZeroExt(u8(mem_get(x.mem, o + 1)), 32), 8)),
                   BitOr(Shl(ZeroExt(u8(mem_get(x.mem, o + 2)), 32), 16),
                         Shl(ZeroExt(u8(mem_get(x.mem, o + 3)), 32), 24)))

\* a checked `-` or `+` on u32: wraps in a release build, panics in a debug build
checked(x, r) == IF r.carry /\ overflow_checks THEN [x EXCEPT !.panic = TRUE] ELSE x

\* a variant of push that stores at esp before it lowers esp; C8 tells it
\* from push
push_then_decrement(x, value) ==
    LET d == overflowing_sub(x.regs.esp, u32(0, 4))
        x1 == write_u32(x, x.regs.esp, value)
    IN  IF x1.panic THEN x1 ELSE checked([x1 EXCEPT !.regs.esp = d.result], d)

\* X86::push
push(x, value) ==
    LET d == overflowing_sub(x.regs.esp, u32(0, 4))
        x1 == checked([x EXCEPT !.regs.esp = d.result], d)
    IN  IF x1.panic THEN x1 ELSE write_u32(x1, x1.regs.esp, value)

\* X86::pop: the machine after it, and the value it returns
pop_value(x) == read_u32(x, x.regs.esp)
pop(x) ==
    LET d == overflowing_add(x.regs.esp, u32(0, 4))
    IN  IF ~read_ok(x, x.regs.esp) THEN [x EXCEPT !.panic = TRUE]
        ELSE checked([x EXCEPT !.regs.esp = d.result], d)

\* X86::addr
addr_ok(instr) ==
    /\ instr.memory_index_scale = 1
    /\ regs_get_ok(instr.memory_base)
    /\ regs_get_ok(instr.memory_index)
addr(x, instr) ==
    wrapping_add(wrapping_add(regs_get(x.regs, instr.memory_base),
                              regs_get(x.regs, instr.memory_index)),
                 instr.memory_displacement32)

---------------------------------------------------------------------------
(* win32/src/winapi/mod.rs: the shims winapi_shims! generates. *)

\* The APIs imported by the guest of the model: the handler of the IAT-call
\* scenario (two parameters, returns their sum) and one without parameters.
api_params(name) == CASE name = "sum2" -> 2 [] name = "seven" -> 0 [] OTHER -> 0
api_body(name, args) ==
    CASE name = "sum2" -> wrapping_add(args[1], args[2])
      [] name = "seven" -> u32(0, 7)
      [] OTHER -> u32(0, 0)

RECURSIVE pop_params(_, _, _)
\* $(let $param: $type = x86.pop();)* : one pop per declared parameter, in
\* declaration order
pop_params(x, n, args) ==
    IF n = 0 \/ x.panic THEN [x |-> x, args |-> args]
    ELSE pop_params(pop(x), n - 1, Append(args, pop_value(x)))

\* shims::$name
shim(x, name) ==
    LET popped == pop_params(x, api_params(name), <<>>)
    IN  IF popped.x.panic THEN popped.x
        ELSE [popped.x EXCEPT !.regs.eax = api_body(name, popped.args)]

---------------------------------------------------------------------------
(* win32/src/winapi/derive/src/lib.rs: the shims winapi_macro_derive
   generates. *)

\* The functions that carry the attribute in the model, by the types of the
\* parameters after the first (the first is the machine and is not popped):
\*   fn strlen(m, s: &str) -> u32 { s.len() as u32 }
\*   fn pick(m, a: u32, s: &str) -> u32 { a }
hello_params(name) ==
    CASE name = "strlen" -> <<"str">>
      [] name = "pick" -> <<"u32", "str">>
      [] OTHER -> <<>>
hello_body(name, args) ==
    CASE name = "strlen" -> NatBits(Len(args[1]), 32)
      [] name = "pick" -> args[1]
      [] OTHER -> u32(0, 0)

RECURSIVE read_strz(_, _)
\* x86.mem[ofs..].read_strz(): the bytes from ofs up to the first NUL (the
\* memory of the model ends in zero bytes)
read_strz(m, ofs) ==
    IF mem_get(m, ofs) = 0 THEN <<>>
    ELSE <<mem_get(m, ofs)>> \o read_strz(m, ofs + 1)

\* the expression that fetches one parameter: x86.pop() for u32, and for &str
\* a pop, then the slice mem[ofs..] (a panic when ofs is past the end), then
\* read_strz
hello_get(x, type) ==
    LET ofs == pop_value(x)
        x1 == pop(x)
    IN  IF type = "u32" THEN [x |-> x1, arg |-> ofs]
        ELSE IF x1.panic THEN [x |-> x1, arg |-> <<>>]
        ELSE IF ofs[32] = 1 \/ ofs[31] = 1 \/ ToNat(ofs) > x1.mem.len
             THEN [x |-> [x1 EXCEPT !.panic = TRUE], arg |-> <<>>]
        ELSE [x |-> x1, arg |-> read_strz(x1.mem, ToNat(ofs))]

RECURSIVE hello_pops(_, _, _)
\* #(#pops)* : one `let name = get;` per parameter after the first, in
\* declaration order
hello_pops(x, types, args) ==
    IF types = <<>> \/ x.panic THEN [x |-> x, args |-> args]
    ELSE LET g == hello_get(x, Head(types))
         IN  hello_pops(g.x, Tail(types), Append(args, g.arg))

\* fn #shim_name(x86: &mut X86) -> u32 { #(#pops)* #func_name(#(#args,)*); 0 }
\* The value of the call is dropped and the shim returns 0; eax is not written.
hello_shim(x, name) ==
    LET popped == hello_pops(x, hello_params(name), <<>>)
    IN  [x |-> popped.x, args |-> popped.args, ret |-> u32(0, 0)]

---------------------------------------------------------------------------
(* win32/src/windows.rs: load_exe.  A parsed file is the record pe::parse
   returns, together with the bytes of the file (buf) and the import list
   pe::parse_imports finds in the loaded image. *)

\* a `+` on u32: the sum, and whether the build panics on it
plus_u32(a, b, checks) ==
    LET r == overflowing_add(a, b)
    IN  [result |-> r.result, panic |-> r.carry /\ checks]

\* mem[dst..dst + size].copy_from_slice(&buf[src..src + size]) on the
\* non-zero bytes the model keeps
copy_from_slice(m, dst, buf, src, size) ==
    LET moved == {o \in DOMAIN buf.bytes : src <= o /\ o < src + size}
        kept == {a \in DOMAIN m.bytes : a < dst \/ a >= dst + size}
        target == {dst + (o - src) : o \in moved}
    IN  [m EXCEPT !.bytes = [a \in kept \cup target |->
                                IF a \in kept THEN m.bytes[a]
                                ELSE buf.bytes[src + (a - dst)]]]

\* the body of `for sec in file.sections` for one section, on the loader
\* state l = [mem, mappings, panic]
load_section(l, file, sec, checks) ==
    LET base == file.image_base
        src == ToNat(sec.pointer_to_raw_data)
        sum == plus_u32(base, sec.virtual_address, checks)
        dst == ToNat(sum.result)
        size == ToNat(sec.size_of_raw_data)
        copies == ~sec.uninitialized_data
        bad_slice == dst + size > l.mem.len \/ src + size > file.buf.len
        m1 == IF copies THEN copy_from_slice(l.mem, dst, file.buf, src, size) ELSE l.mem
        added == add_mapping(l.mappings,
                             Mapping(sum.result, sec.size_of_raw_data, sec.name), checks)
    IN  IF sum.panic \/ (copies /\ bad_slice) THEN [l EXCEPT !.panic = TRUE]
        ELSE [mem |-> m1, mappings |-> added.mappings, panic |-> added.panic]

RECURSIVE load_sections(_, _, _, _)
\* for sec in file.sections { ... }
load_sections(l, file, secs, checks) ==
    IF secs = <<>> \/ l.panic THEN l
    ELSE load_sections(load_section(l, file, Head(secs), checks), file, Tail(secs), checks)

\* if stack_size > 1 << 20 { stack_size = 32 << 10; }
stack_size(file) ==
    IF Gt(file.size_of_stack_reserve, Shl(u32(0, 1), 20)) THEN Shl(u32(0, 32), 10)
    ELSE file.size_of_stack_reserve

\* winapi::resolve: the handler of a symbol, if this build has one
resolve(sym) == IF sym \in {"sum2", "seven"} THEN sym ELSE "None"

\* x86.imports after `for (&addr, sym) in imports.iter()`
resolve_imports(found) == [a \in DOMAIN found |-> resolve(found[a])]

\* what load_exe leaves when it does not return a machine
load_failed(panic, err) ==
    [x |-> [X86_new EXCEPT !.panic = panic], mappings |-> AppState_new,
     image_base |-> u32(0, 0), err |-> err]

\* x86.mem.resize(base + size_of_image), then the sections: the loader state
\* [mem, mappings, panic]
load_image(file, checks) ==
    LET image_end == plus_u32(file.image_base, file.size_of_image, checks)
    IN  load_sections([mem |-> [len |-> ToNat(image_end.result), bytes |-> <<>>],
                       mappings |-> AppState_new, panic |-> image_end.panic],
                      file, file.sections, checks)

\* the two slices handed to pe::parse_imports: whether taking them panics
imports_slices_panic(file, l, checks) ==
    LET dir == file.imports_data
        dir_start == plus_u32(file.image_base, dir.virtual_address, checks)
        dir_end == plus_u32(dir_start.result, dir.size, checks)
    IN  \/ dir_start.panic \/ dir_end.panic
        \/ ToNat(file.image_base) > l.mem.len
        \/ ToNat(dir_start.result) > ToNat(dir_end.result)
        \/ ToNat(dir_end.result) > l.mem.len

\* from `let stack_end = ...` to Ok(x86), with the image l loaded and the
\* stack allocated
load_finish(file, l, stack, checks) ==
    LET top == plus_u32(stack.ret.addr, stack.ret.size, checks)
        stack_end == overflowing_sub(top.result, u32(0, 4))
        entry_point == plus_u32(file.image_base, file.address_of_entry_point, checks)
    IN  IF \/ top.panic \/ (stack_end.carry /\ checks)
           \/ imports_slices_panic(file, l, checks) \/ entry_point.panic
        THEN load_failed(TRUE, "")
        ELSE [x |-> [mem |-> l.mem,
                     regs |-> [X86_new_regs EXCEPT !.esp = stack_end.result,
                                                   !.ebp = stack_end.result,
                                                   !.eip = entry_point.result],
                     imports |-> resolve_imports(file.imports), panic |-> FALSE],
              mappings |-> stack.mappings, image_base |-> file.image_base, err |-> ""]

\* from `let mut stack_size = ...` on, with the image l loaded
load_stack(file, l, stack, checks) ==
    IF l.panic \/ stack.panic THEN load_failed(TRUE, "")
    ELSE load_finish(file, l, stack, checks)

\* ... with the stack allocated in the address space of l
load_loaded(file, l, checks) ==
    load_stack(file, l, alloc(l.mappings, stack_size(file), "stack", checks), checks)

\* load_exe: the machine and address space it returns, an error, or a panic
load_exe(file, checks) ==
    IF ~file.parses THEN load_failed(FALSE, "parse")
    ELSE load_loaded(file, load_image(file, checks), checks)

---------------------------------------------------------------------------
(* win32/src/x86.rs: X86::run and X86::step. *)

SignExt(x, W) == x \o [i \in 1..(W - Len(x)) |-> x[Len(x)]]

\* iced_x86::Instruction accessors over a decoded instruction record
immediate8(instr) == instr.imm8
immediate8to32(instr) == SignExt(instr.imm8, 32)
immediate16(instr) == instr.imm16
immediate32(instr) == instr.imm32
near_branch32(instr) == instr.near_branch32

Handled ==
    {"Enterd_imm16_imm8", "Call_rel32_32", "Call_rm32", "Retnd", "Jmp_rel32_32",
     "Pushd_imm8", "Pushd_imm32", "Push_r32", "Push_rm32", "Pop_r32",
     "Mov_rm32_imm32", "Mov_r32_imm32", "Mov_moffs32_EAX", "Mov_EAX_moffs32",
     "Mov_rm32_r32", "Mov_r32_rm32", "And_rm32_imm8", "Xor_rm32_r32",
     "Sub_rm32_imm8", "Sub_rm32_imm32", "Lea_r32_m"}

Panic(x) == [x EXCEPT !.panic = TRUE]

\* write a register through Registers::set, or todo!()
set_reg(x, name, value) ==
    IF regs_set_ok(name) THEN [x EXCEPT !.regs = regs_set(x.regs, name, value)]
    ELSE Panic(x)

\* self.read_u32(self.addr(instr)) can be evaluated without a panic
mem_operand_ok(x, instr) == addr_ok(instr) /\ read_ok(x, addr(x, instr))

\* the Call_rm32 arm
run_call_rm32(x, instr) ==
    IF instr.memory_index # "None" \/ ~mem_operand_ok(x, instr) THEN Panic(x)
    ELSE LET target == read_u32(x, addr(x, instr))
         IN  IF target \in DOMAIN x.imports
             THEN IF x.imports[target] # "None"
                  THEN shim(x, x.imports[target])
                  ELSE x   \* log::error!("unimplemented import")
             ELSE LET x1 == push(x, x.regs.eip)
                  IN  [x1 EXCEPT !.regs.eip = target]

\* the And_rm32_imm8 arm
run_and_rm32_imm8(x, instr) ==
    CASE instr.op0_kind = "Register" ->
           LET reg == instr.op0_register
           IN  IF instr.op1_kind # "Immediate8to32" \/ ~regs_get_ok(reg) THEN Panic(x)
               ELSE set_reg(x, reg, BitAnd(regs_get(x.regs, reg), immediate8to32(instr)))
      [] instr.op0_kind = "Memory" ->
           IF ~mem_operand_ok(x, instr) THEN Panic(x)
           ELSE LET a == addr(x, instr)
                IN  write_u32(x, a, BitAnd(read_u32(x, a), ZeroExt(immediate8(instr), 32)))
      [] OTHER -> Panic(x)

\* a checked `get(reg) - y` written back to reg
run_sub(x, reg, y) ==
    IF ~regs_get_ok(reg) THEN Panic(x)
    ELSE LET d == overflowing_sub(regs_get(x.regs, reg), y)
         IN  IF d.carry /\ overflow_checks THEN Panic(x) ELSE set_reg(x, reg, d.result)

\* the Enterd_imm16_imm8 arm
\* a variant of the arm that makes ebp the frame pointer only after the
\* locals are reserved; C21 tells it from run_enter
run_enter_frame_below_locals(x, instr) ==
    LET x1 == push(x, x.regs.ebp)
        d == overflowing_sub(x1.regs.esp, ZeroExt(immediate16(instr), 32))
        x2 == [x1 EXCEPT !.regs.esp = d.result, !.regs.ebp = d.result]
    IN  IF x1.panic THEN x1 ELSE checked(x2, d)

run_enter(x, instr) ==
    LET x1 == push(x, x.regs.ebp)
        x2 == [x1 EXCEPT !.regs.ebp = x1.regs.esp]
        d == overflowing_sub(x2.regs.esp, ZeroExt(immediate16(instr), 32))
    IN  IF x1.panic THEN x1 ELSE checked([x2 EXCEPT !.regs.esp = d.result], d)

\* the arms of the match in X86::run, on the machine x whose eip is already
\* next_ip
run_arm(x, instr) ==
    CASE instr.code = "Enterd_imm16_imm8" -> run_enter(x, instr)
      [] instr.code = "Call_rel32_32" ->
           LET x1 == push(x, x.regs.eip)
           IN  [x1 EXCEPT !.regs.eip = near_branch32(instr)]
      [] instr.code = "Call_rm32" -> run_call_rm32(x, instr)
      [] instr.code = "Retnd" ->
           LET x1 == pop(x) IN [x1 EXCEPT !.regs.eip = pop_value(x)]
      [] instr.code = "Jmp_rel32_32" -> [x EXCEPT !.regs.eip = near_branch32(instr)]
      [] instr.code = "Pushd_imm8" -> push(x, immediate8to32(instr))
      [] instr.code = "Pushd_imm32" -> push(x, immediate32(instr))
      [] instr.code = "Push_r32" ->
           IF regs_get_ok(instr.op0_register)
           THEN push(x, regs_get(x.regs, instr.op0_register)) ELSE Panic(x)
      [] instr.code = "Push_rm32" ->
           IF mem_operand_ok(x, instr) THEN push(x, read_u32(x, addr(x, instr)))
           ELSE Panic(x)
      [] instr.code = "Pop_r32" ->
           LET x1 == pop(x)
           IN  IF x1.panic THEN x1 ELSE set_reg(x1, instr.op0_register, pop_value(x))
      [] instr.code = "Mov_rm32_imm32" ->
           IF instr.op0_kind # "Memory" \/ ~addr_ok(instr) THEN Panic(x)
           ELSE write_u32(x, addr(x, instr), immediate32(instr))
      [] instr.code = "Mov_r32_imm32" -> set_reg(x, instr.op0_register, immediate32(instr))
      [] instr.code = "Mov_moffs32_EAX" ->
           IF addr_ok(instr) THEN write_u32(x, addr(x, instr), x.regs.eax) ELSE Panic(x)
      [] instr.code = "Mov_EAX_moffs32" ->
           IF mem_operand_ok(x, instr)
           THEN [x EXCEPT !.regs.eax = read_u32(x, addr(x, instr))] ELSE Panic(x)
      [] instr.code = "Mov_rm32_r32" ->
           IF ~regs_get_ok(instr.op1_register) THEN Panic(x)
           ELSE LET value == regs_get(x.regs, instr.op1_register)
                IN  CASE instr.op0_kind = "Register" -> set_reg(x, instr.op0_register, value)
                      [] instr.op0_kind = "Memory" ->
                           IF addr_ok(instr) THEN write_u32(x, addr(x, instr), value)
                           ELSE Panic(x)
                      [] OTHER -> Panic(x)
      [] instr.code = "Mov_r32_rm32" ->
           CASE instr.op1_kind = "Register" ->
                  IF regs_get_ok(instr.op1_register)
                  THEN set_reg(x, instr.op0_register, regs_get(x.regs, instr.op1_register))
                  ELSE Panic(x)
             [] instr.op1_kind = "Memory" ->
                  IF mem_operand_ok(x, instr)
                  THEN set_reg(x, instr.op0_register, read_u32(x, addr(x, instr)))
                  ELSE Panic(x)
             [] OTHER -> Panic(x)
      [] instr.code = "And_rm32_imm8" -> run_and_rm32_imm8(x, instr)
      [] instr.code = "Xor_rm32_r32" ->
           LET reg == instr.op0_register
           IN  IF instr.op0_kind # "Register" \/ ~regs_get_ok(reg)
                  \/ ~regs_get_ok(instr.op1_register)
               THEN Panic(x)
               ELSE set_reg(x, reg, BitXor(regs_get(x.regs, reg),
                                           regs_get(x.regs, instr.op1_register)))
      [] instr.code = "Sub_rm32_imm8" ->
           IF instr.op0_kind # "Register" \/ instr.op1_kind # "Immediate8to32" THEN Panic(x)
           ELSE run_sub(x, instr.op0_register, immediate8to32(instr))
      [] instr.code = "Sub_rm32_imm32" ->
           IF instr.op0_kind # "Register" THEN Panic(x)
           ELSE run_sub(x, instr.op0_register, immediate32(instr))
      [] instr.code = "Lea_r32_m" ->
           IF addr_ok(instr) THEN set_reg(x, instr.op0_register, addr(x, instr))
           ELSE Panic(x)

\* a variant of the default arm that leaves eip where run advanced it; C5
\* tells it from run_unhandled
run_unhandled_without_rewind(x, instr) == x

\* the default arm: self.regs.eip -= instr.len(); bail!(..)
run_unhandled(x, instr) ==
    LET d == overflowing_sub(x.regs.eip, u32(0, instr.len))
    IN  checked([x EXCEPT !.regs.eip = d.result], d)

\* a variant of run that leaves eip at the instruction while its arm runs; C4
\* tells it from run
run_without_advance(x, instr, next_ip) ==
    IF instr.prefix THEN [x |-> Panic(x), err |-> ""]
    ELSE IF instr.code \in Handled
         THEN [x |-> run_arm(x, instr), err |-> ""]
         ELSE [x |-> run_unhandled(x, instr), err |-> instr.code]

\* X86::run: the machine after the instruction, and the error returned ("" for Ok)
run(x, instr, next_ip) ==
    IF instr.prefix THEN [x |-> Panic(x), err |-> ""]
    ELSE LET x0 == [x EXCEPT !.regs.eip = next_ip]
         IN  IF instr.code \in Handled
             THEN [x |-> run_arm(x0, instr), err |-> ""]
             ELSE [x |-> run_unhandled(x0, instr), err |-> instr.code]

\* X86::step, where instr is what the decoder finds at eip: the slice
\* mem[eip..] panics when eip is past the end of mem
step(x, instr) ==
    IF ~(x.regs.eip[32] = 0 /\ x.regs.eip[31] = 0 /\ ToNat(x.regs.eip) <= x.mem.len)
    THEN [x |-> Panic(x), err |-> ""]
    ELSE run(x, instr, wrapping_add(x.regs.eip, u32(0, instr.len)))

---------------------------------------------------------------------------
(* x86/src/registers.rs: the register file of the x86 crate. *)

Flags == {"CF", "ZF", "SF", "DF", "OF"}

\* bitflags: Flags::set(flag, value)
flags_set(flags, flag, value) == IF value THEN flags \cup {flag} ELSE flags \ {flag}

\* the order in which Registers::new lists the fields; a struct declared in
\* this order is what C9 excludes
Registers_new_order == <<"eax", "ebx", "ecx", "edx", "esp", "ebp", "esi", "edi", "eip">>

\* #[repr(C)] struct Registers: its leading u32 fields in declaration order,
\* so that field k (from 0) lies at byte offset 4 * k
Registers_layout == <<"eax", "ecx", "edx", "ebx", "esp", "ebp", "esi", "edi", "eip">>

\* iced_x86::Register, in the order of the enum's discriminants (the 8-, 16-
\* and 32-bit general-purpose registers the model uses, and one past EDI)
iced_Register ==
    <<"None", "AL", "CL", "DL", "BL", "AH", "CH", "DH", "BH",
      "AX", "CX", "DX", "BX", "SP", "BP", "SI", "DI",
      "EAX", "ECX", "EDX", "EBX", "ESP", "EBP", "ESI", "EDI", "R8D">>

\* `reg as usize`
as_usize(reg) == CHOOSE i \in 1..Len(iced_Register) : iced_Register[i] = reg

\* Registers::new
Registers_new ==
    [eax |-> u32(0, 0), ebx |-> u32(0, 0), ecx |-> u32(0, 0), edx |-> u32(0, 0),
     esp |-> u32(0, 0), ebp |-> u32(0, 0), esi |-> u32(0, 0), edi |-> u32(0, 0),
     eip |-> u32(0, 0),
     cs |-> u16(0), ds |-> u16(0), es |-> u16(0),
     fs |-> u16(0), gs |-> u16(0), ss |-> u16(0),
     fs_addr |-> u32(0, 0),
     flags |-> {},
     st |-> [i \in 1..8 |-> 0], st_top |-> 8, fpu_status |-> {},
     mm |-> [i \in 1..8 |-> 0]]

\* get32 and set32 index the struct as an array of u32 with
\* idx = reg as usize - EAX as usize; a register before EAX (the subtraction
\* overflows) or at idx >= 8 ends in a panic
idx32(reg) == as_usize(reg) - as_usize("EAX")
get32_ok(reg) == idx32(reg) >= 0 /\ idx32(reg) < 8

\* Registers::get32
get32(r, reg) == r[Registers_layout[idx32(reg) + 1]]

\* Registers::set32
set32(r, reg, value) == [r EXCEPT ![Registers_layout[idx32(reg) + 1]] = value]

Low8 == {"AL", "CL", "DL", "BL"}
High8 == {"AH", "CH", "DH", "BH"}

\* the 32-bit field an 8-bit register is part of
parent8(reg) ==
    CASE reg \in {"AL", "AH"} -> "eax"
      [] reg \in {"CL", "CH"} -> "ecx"
      [] reg \in {"DL", "DH"} -> "edx"
      [] reg \in {"BL", "BH"} -> "ebx"

get8_ok(reg) == reg \in Low8 \cup High8

\* Registers::get8
get8(r, reg) ==
    CASE reg = "AL" -> Trunc(r.eax, 8)
      [] reg = "CL" -> Trunc(r.ecx, 8)
      [] reg = "DL" -> Trunc(r.edx, 8)
      [] reg = "BL" -> Trunc(r.ebx, 8)
      [] reg = "AH" -> Trunc(Shr(r.eax, 8), 8)
      [] reg = "CH" -> Trunc(Shr(r.ecx, 8), 8)
      [] reg = "DH" -> Trunc(Shr(r.edx, 8), 8)
      [] reg = "BH" -> Trunc(Shr(r.ebx, 8), 8)

\* (old & 0xFFFF_FF00) | value as u32
set_low8(old, value) == BitOr(BitAnd(old, u32(\hFFFF, \hFF00)), ZeroExt(value, 32))
\* a variant of set_high8 with the mask of the low byte; C10 tells it from
\* set_high8
set_high8_low_mask(old, value) ==
    BitOr(BitAnd(old, u32(\hFFFF, \hFF00)), Shl(ZeroExt(value, 32), 8))

\* (old & 0xFFFF_00FF) | ((value as u32) << 8)
set_high8(old, value) ==
    BitOr(BitAnd(old, u32(\hFFFF, \h00FF)), Shl(ZeroExt(value, 32), 8))

\* Registers::set8
set8(r, reg, value) ==
    CASE reg = "AL" -> [r EXCEPT !.eax = set_low8(r.eax, value)]
      [] reg = "CL" -> [r EXCEPT !.ecx = set_low8(r.ecx, value)]
      [] reg = "DL" -> [r EXCEPT !.edx = set_low8(r.edx, value)]
      [] reg = "BL" -> [r EXCEPT !.ebx = set_low8(r.ebx, value)]
      [] reg = "AH" -> [r EXCEPT !.eax = set_high8(r.eax, value)]
      [] reg = "CH" -> [r EXCEPT !.ecx = set_high8(r.ecx, value)]
      [] reg = "DH" -> [r EXCEPT !.edx = set_high8(r.edx, value)]
      [] reg = "BH" -> [r EXCEPT !.ebx = set_high8(r.ebx, value)]

Gp16 == {"AX", "CX", "DX", "BX", "SP", "BP", "SI", "DI"}
Seg16 == {"ES", "CS", "SS", "DS", "FS", "GS"}

\* Registers::get16: the arms of its match; any other register is unreachable!
get16_ok(reg) == reg \in Gp16 \cup Seg16
get16(r, reg) ==
    CASE reg = "AX" -> Trunc(r.eax, 16)
      [] reg = "CX" -> Trunc(r.ecx, 16)
      [] reg = "DX" -> Trunc(r.edx, 16)
      [] reg = "BX" -> Trunc(r.ebx, 16)
      [] reg = "SP" -> Trunc(r.esp, 16)
      [] reg = "BP" -> Trunc(r.ebp, 16)
      [] reg = "SI" -> Trunc(r.esi, 16)
      [] reg = "DI" -> Trunc(r.edi, 16)
      [] reg = "ES" -> r.es
      [] reg = "CS" -> r.cs
      [] reg = "SS" -> r.ss
      [] reg = "DS" -> r.ds
      [] reg = "FS" -> r.fs
      [] reg = "GS" -> r.gs

\* (old & 0xFFFF_0000) | value as u32
set_low16(old, value) == BitOr(BitAnd(old, u32(\hFFFF, \h0000)), ZeroExt(value, 32))

\* Registers::set16: the arms of its match (there is none for SP and BP); any
\* other register is unreachable!
set16_ok(reg) == reg \in {"AX", "CX", "DX", "BX", "SI", "DI"} \cup Seg16
set16(r, reg, value) ==
    CASE reg = "AX" -> [r EXCEPT !.eax = set_low16(r.eax, value)]
      [] reg = "CX" -> [r EXCEPT !.ecx = set_low16(r.ecx, value)]
      [] reg = "DX" -> [r EXCEPT !.edx = set_low16(r.edx, value)]
      [] reg = "BX" -> [r EXCEPT !.ebx = set_low16(r.ebx, value)]
      [] reg = "SI" -> [r EXCEPT !.esi = set_low16(r.esi, value)]
      [] reg = "DI" -> [r EXCEPT !.edi = set_low16(r.edi, value)]
      [] reg = "ES" -> [r EXCEPT !.es = value]
      [] reg = "CS" -> [r EXCEPT !.cs = value]
      [] reg = "SS" -> [r EXCEPT !.ss = value]
      [] reg = "DS" -> [r EXCEPT !.ds = value]
      [] reg = "FS" -> [r EXCEPT !.fs = value]
      [] reg = "GS" -> [r EXCEPT !.gs = value]

\* The FPU accessors.  st is [f64; 8]: an index of 8 or more is a panic of
\* the bounds check.  Each accessor gives the lanes it indexes (from 0) and
\* whether it panics.

\* Registers::st_top: &mut self.st[self.st_top]
st_top(r) == [lanes |-> <<r.st_top>>, panic |-> r.st_top >= 8]

\* Registers::st_offset: ST0 and ST1, unreachable!() for any other register
st_offset_ok(reg) == reg \in {"ST0", "ST1"}
st_offset(r, reg) == r.st_top + (IF reg = "ST0" THEN 0 ELSE 1)

\* Registers::getst: &mut self.st[self.st_offset(reg)]
getst(r, reg) ==
    IF ~st_offset_ok(reg) THEN [lanes |-> <<>>, panic |-> TRUE]
    ELSE [lanes |-> <<st_offset(r, reg)>>, panic |-> st_offset(r, reg) >= 8]

\* Registers::st_swap: the two offsets, then self.st.swap(o1, o2)
st_swap(r, r1, r2) ==
    IF ~st_offset_ok(r1) \/ ~st_offset_ok(r2)
    THEN [lanes |-> <<>>, panic |-> TRUE, st |-> r.st]
    ELSE LET o1 == st_offset(r, r1)
             o2 == st_offset(r, r2)
         IN  IF o1 >= 8 \/ o2 >= 8
             THEN [lanes |-> <<o1, o2>>, panic |-> TRUE, st |-> r.st]
             ELSE [lanes |-> <<o1, o2>>, panic |-> FALSE,
                   st |-> [r.st EXCEPT ![o1 + 1] = r.st[o2 + 1],
                                       ![o2 + 1] = r.st[o1 + 1]]]

---------------------------------------------------------------------------
(* x86/src/ops/math.rs: the generic integer core.  A helper takes the       *)
(* register file r (for its flags) and returns it with the result.          *)

\* a variant of add with the overflow detector of sub; C6 tells it from add
add_with_overflow_of_sub(r, x, y) ==
    LET sum == overflowing_add(x, y)
        result == sum.result
        f1 == flags_set(r.flags, "CF", sum.carry)
        f2 == flags_set(f1, "ZF", is_zero(result))
        f3 == flags_set(f2, "SF", is_one(Shr(result, bits(x) - 1)))
        of == ~is_zero(Shr(BitAnd(BitXor(x, y), BitXor(x, result)), bits(x) - 1))
        f4 == flags_set(f3, "OF", of)
    IN  [regs |-> [r EXCEPT !.flags = f4], result |-> result]

\* add<I: Int>(x86, x, y)
add(r, x, y) ==
    LET sum == overflowing_add(x, y)
        result == sum.result
        f1 == flags_set(r.flags, "CF", sum.carry)
        f2 == flags_set(f1, "ZF", is_zero(result))
        f3 == flags_set(f2, "SF", is_one(Shr(result, bits(x) - 1)))
        of == ~is_zero(Shr(BitAnd(BitXor(x, BitNot(y)), BitXor(x, result)), bits(x) - 1))
        f4 == flags_set(f3, "OF", of)
    IN  [regs |-> [r EXCEPT !.flags = f4], result |-> result]

\* a variant of sub with the overflow detector of add; C7 tells it from sub
sub_with_overflow_of_add(r, x, y) ==
    LET diff == overflowing_sub(x, y)
        result == diff.result
        f1 == flags_set(r.flags, "CF", diff.carry)
        f2 == flags_set(f1, "ZF", is_zero(result))
        f3 == flags_set(f2, "SF", is_one(Shr(result, bits(x) - 1)))
        of == ~is_zero(Shr(BitAnd(BitXor(x, BitNot(y)), BitXor(x, result)), bits(x) - 1))
        f4 == flags_set(f3, "OF", of)
    IN  [regs |-> [r EXCEPT !.flags = f4], result |-> result]

\* sub<I: Int>(x86, x, y)
sub(r, x, y) ==
    LET diff == overflowing_sub(x, y)
        result == diff.result
        f1 == flags_set(r.flags, "CF", diff.carry)
        f2 == flags_set(f1, "ZF", is_zero(result))
        f3 == flags_set(f2, "SF", is_one(Shr(result, bits(x) - 1)))
        of == ~is_zero(Shr(BitAnd(BitXor(x, y), BitXor(x, result)), bits(x) - 1))
        f4 == flags_set(f3, "OF", of)
    IN  [regs |-> [r EXCEPT !.flags = f4], result |-> result]

\* and<I: Int>(x86, x, y)
and(r, x, y) ==
    LET result == BitAnd(x, y)
        f1 == flags_set(r.flags, "ZF", is_zero(result))
        f2 == flags_set(f1, "SF", is_one(Shr(result, bits(x) - 1)))
        f3 == flags_set(f2, "OF", FALSE)
    IN  [regs |-> [r EXCEPT !.flags = f3], result |-> result, panic |-> FALSE]

\* and_rm32_r32: through the helper
and_rm32_r32(r, x, y) == and(r, x, y)

\* and_r32_rm32: `get32(reg) & y`, without the helper
and_r32_rm32(r, x, y) == [regs |-> r, result |-> BitAnd(x, y), panic |-> FALSE]

\* x86.regs.flags.contains(Flags::CF) as u32 (or as u8)
carry_in(r, W) == NatBits(IF "CF" \in r.flags THEN 1 ELSE 0, W)

\* sbb_r32_rm32 on the destination value x and the operand value y:
\* y.wrapping_add(carry), then sub
sbb_r32_rm32(r, x, y) ==
    sub(r, x, wrapping_add(y, carry_in(r, 32))) @@ [panic |-> FALSE]

\* sbb_rm32_r32: `get32(op1) + carry` is a checked `+`, then sub
sbb_rm32_r32(r, x, y, checks) ==
    LET s == overflowing_add(y, carry_in(r, 32))
    IN  IF s.carry /\ checks THEN [regs |-> r, result |-> x, panic |-> TRUE]
        ELSE sub(r, x, s.result) @@ [panic |-> FALSE]

\* sbb_r8_rm8
sbb_r8_rm8(r, x, y) ==
    sub(r, x, wrapping_add(y, carry_in(r, 8))) @@ [panic |-> FALSE]

\* dec_rm32 and dec_rm8: sub(x86, x, 1)
dec_rm32(r, x) == sub(r, x, NatBits(1, 32)) @@ [panic |-> FALSE]
dec_rm8(r, x) == sub(r, x, NatBits(1, 8)) @@ [panic |-> FALSE]

\* inc_rm32: `x + 1`, a checked `+`; no flag is written
inc_rm32(r, x, checks) ==
    LET s == overflowing_add(x, NatBits(1, 32))
    IN  [regs |-> r, result |-> s.result, panic |-> s.carry /\ checks]

\* inc_rm8: x.wrapping_add(1); no flag is written
inc_rm8(r, x) == [regs |-> r, result |-> wrapping_add(x, NatBits(1, 8)), panic |-> FALSE]

\* I::one()
one(W) == NatBits(1, W)

\* x >> n and x.shr(n) with n: usize.  A shift by the width or more is an
\* overflow: a panic in a build with overflow checks, and else the amount is
\* taken modulo the width.  n < 0 stands for the usize 2^64 + n that a
\* wrapping subtraction left; the width divides 2^64.
shr_overflows(x, n) == n < 0 \/ n >= Len(x)
shr_masked(x, n) == Shr(x, n % Len(x))

\* x.wrapping_shl(n)
wrapping_shl(x, n) == Shl(x, n % Len(x))

\* x.signed_shr(n): ((x as signed) >> n) as unsigned, the sign bit shifted in
signed_shr(x, n) ==
    LET k == n % Len(x)
    IN  [i \in 1..Len(x) |-> IF i + k <= Len(x) THEN x[i + k] ELSE x[Len(x)]]

\* shl<I: Int>(x86, x, y: u8); y is a natural below 256
shl(r, x, y, checks) ==
    IF y = 0 THEN [regs |-> r, result |-> x, panic |-> FALSE]
    ELSE LET n == bits(x) - y      \* I::bits() - y as usize
             cf == is_one(BitAnd(shr_masked(x, n), one(bits(x))))
             val == wrapping_shl(x, y)
             f1 == flags_set(r.flags, "CF", cf)
             msb == is_one(Shr(val, bits(x) - 1))
             f2 == flags_set(f1, "SF", msb)
             of == is_one(Shr(x, bits(x) - 1))
                       # is_one(BitAnd(Shr(x, bits(x) - 2), one(bits(x))))
             f3 == flags_set(f2, "OF", of)
             f4 == flags_set(f3, "ZF", is_zero(val))
         IN  IF checks /\ shr_overflows(x, n)
             THEN [regs |-> r, result |-> x, panic |-> TRUE]
             ELSE [regs |-> [r EXCEPT !.flags = f4], result |-> val, panic |-> FALSE]

\* a variant of shr whose zero-count case sets ZF from x; C12 tells it from shr
shr_zero_count_sets_zf(r, x, y, checks) ==
    IF y = 0
    THEN [regs |-> [r EXCEPT !.flags = flags_set(r.flags, "ZF", is_zero(x))],
          result |-> x, panic |-> FALSE]
    ELSE LET f1 == flags_set(r.flags, "CF", is_one(BitAnd(shr_masked(x, y - 1), one(bits(x)))))
             val == shr_masked(x, y)
             f2 == flags_set(f1, "SF", FALSE)
             f3 == flags_set(f2, "ZF", is_zero(val))
             f4 == flags_set(f3, "OF", is_one(Shr(x, bits(x) - 1)))
         IN  IF checks /\ (shr_overflows(x, y - 1) \/ shr_overflows(x, y))
             THEN [regs |-> r, result |-> x, panic |-> TRUE]
             ELSE [regs |-> [r EXCEPT !.flags = f4], result |-> val, panic |-> FALSE]

\* shr<I: Int>(x86, x, y: u8); y is a natural below 256
shr(r, x, y, checks) ==
    IF y = 0 THEN [regs |-> r, result |-> x, panic |-> FALSE]
    ELSE LET f1 == flags_set(r.flags, "CF", is_one(BitAnd(shr_masked(x, y - 1), one(bits(x)))))
             val == shr_masked(x, y)
             f2 == flags_set(f1, "SF", FALSE)
             f3 == flags_set(f2, "ZF", is_zero(val))
             f4 == flags_set(f3, "OF", is_one(Shr(x, bits(x) - 1)))
         IN  IF checks /\ (shr_overflows(x, y - 1) \/ shr_overflows(x, y))
             THEN [regs |-> r, result |-> x, panic |-> TRUE]
             ELSE [regs |-> [r EXCEPT !.flags = f4], result |-> val, panic |-> FALSE]

\* sar<I: Int>(x86, x, y: I); y.as_usize() is a natural below 256 here
sar(r, x, y, checks) ==
    IF y = 0 THEN [regs |-> r, result |-> x, panic |-> FALSE]
    ELSE LET f1 == flags_set(r.flags, "CF", is_one(BitAnd(shr_masked(x, y - 1), one(bits(x)))))
             f2 == flags_set(f1, "OF", FALSE)
             result == signed_shr(x, y)
             f3 == flags_set(f2, "SF", is_one(Shr(result, bits(x) - 1)))
             f4 == flags_set(f3, "ZF", is_zero(result))
         IN  IF checks /\ (shr_overflows(x, y - 1) \/ shr_overflows(x, y))
             THEN [regs |-> r, result |-> x, panic |-> TRUE]
             ELSE [regs |-> [r EXCEPT !.flags = f4], result |-> result, panic |-> FALSE]

\* x.rotate_right(n): bit i of the result is bit (i + n) mod W of x
rotate_right(x, n) == [i \in 1..Len(x) |-> x[((i - 1 + n) % Len(x)) + 1]]

\* the literal 04000_0000 of ror_rm32_cl: Rust reads a literal with a leading
\* 0 as decimal (octal is 0o...), so it is 40000000 = 0x02625A00
ror_of_mask == NatBits(40000000, 32)

\* ror_rm32_cl: the closure it hands to rm32_x, on the operand x and the
\* count y = ecx as u8; its result is what is written back
ror_rm32_cl(r, x, y) ==
    LET out == rotate_right(x, y)
        msb == ~is_zero(BitAnd(out, u32(\h8000, \h0000)))
        f1 == flags_set(r.flags, "CF", msb)
        f2 == flags_set(f1, "OF", msb # ~is_zero(BitAnd(out, ror_of_mask)))
    IN  [regs |-> [r EXCEPT !.flags = f2], result |-> out, panic |-> FALSE]

\* ((edx as u64) << 32) | (eax as u64)
edx_eax(r) == r.eax \o r.edx

\* two's complement negation, and the magnitude of a signed word
neg(x) == overflowing_sub([i \in 1..Len(x) |-> 0], x).result
is_negative(x) == x[Len(x)] = 1
magnitude(x) == IF is_negative(x) THEN neg(x) ELSE x

RECURSIVE long_division(_, _, _, _, _, _)
\* unsigned long division (y # 0) for the bits of x from i down to stop + 1,
\* given quotient and remainder of the bits above i; the remainder is one
\* bit wider than x so that the shifted remainder fits
long_division(x, y, i, stop, quot, rem) ==
    IF i = stop THEN [quot |-> quot, rem |-> rem]
    ELSE LET shifted == <<x[i]>> \o SubSeq(rem, 1, Len(x))
             fits == Le(y \o <<0>>, shifted)
         IN  \* q and r range over singletons, which binds them to values
             CHOOSE d \in
                 { long_division(x, y, i - 1, stop, q, r) :
                     q \in {[quot EXCEPT ![i] = IF fits THEN 1 ELSE 0]},
                     r \in {IF fits THEN overflowing_sub(shifted, y \o <<0>>).result
                                    ELSE shifted} } : TRUE

RECURSIVE long_division_bytes(_, _, _, _)
\* the same, a byte of x at a time from bit i down
long_division_bytes(x, y, i, d) ==
    IF i = 0 THEN d
    ELSE CHOOSE r \in
             { long_division_bytes(x, y, i - 8, d1) :
                 d1 \in {long_division(x, y, i, i - 8, d.quot, d.rem)} } : TRUE

\* u64 `/` and `%`
unsigned_div(x, y) ==
    LET d == long_division_bytes(x, y, Len(x),
                 [quot |-> [i \in 1..Len(x) |-> 0], rem |-> [i \in 1..(Len(x) + 1) |-> 0]])
    IN  [quot |-> d.quot, rem |-> SubSeq(d.rem, 1, Len(x))]

\* i64 `/` and `%`: the quotient is rounded toward zero, the remainder has
\* the sign of x; i64::MIN / -1 overflows
signed_div_overflows(x, y) ==
    /\ x = [i \in 1..Len(x) |-> IF i = Len(x) THEN 1 ELSE 0]
    /\ y = [i \in 1..Len(x) |-> 1]
signed_div(x, y) ==
    LET d == unsigned_div(magnitude(x), magnitude(y))
    IN  [quot |-> IF is_negative(x) # is_negative(y) THEN neg(d.quot) ELSE d.quot,
         rem |-> IF is_negative(x) THEN neg(d.rem) ELSE d.rem]

\* idiv_rm32, on the operand value y = op0_rm32(x86, instr): a division by
\* zero and an overflowing division panic in every build; else Ok(())
idiv_rm32(r, y) ==
    LET x == edx_eax(r)
        y64 == SignExt(y, 64)
        d == signed_div(x, y64)
    IN  IF is_zero(y64) \/ signed_div_overflows(x, y64)
        THEN [regs |-> r, panic |-> TRUE, err |-> ""]
        ELSE [regs |-> [r EXCEPT !.eax = Trunc(d.quot, 32), !.edx = Trunc(d.rem, 32)],
              panic |-> FALSE, err |-> ""]

\* div_rm32, on the operand value y = op0_rm32(x86, instr)
div_rm32(r, y) ==
    LET x == edx_eax(r)
        y64 == ZeroExt(y, 64)
        d == unsigned_div(x, y64)
    IN  IF is_zero(y64)
        THEN [regs |-> r, panic |-> TRUE, err |-> ""]
        ELSE [regs |-> [r EXCEPT !.eax = Trunc(d.quot, 32), !.edx = Trunc(d.rem, 32)],
              panic |-> FALSE, err |-> ""]

---------------------------------------------------------------------------
(* The driver: what is loaded, and the calls it makes. *)

\* the record of a call: its name, argument, return value, error ("" for
\* none) and the state it was made in
Call(op, arg, ret, err, pre) == [op |-> op, arg |-> arg, ret |-> ret, err |-> err, pre |-> pre]
NoCall == Call("none", <<>>, <<>>, "", <<>>)

\* Addresses of the guest image: image base 0x00400000, code at 0x00401000,
\* import address table at 0x00402000, data at 0x00402020.
EntryPoint == u32(\h0040, \h1000)
Callee == u32(\h0040, \h1800)
IatSum2 == u32(\h0040, \h2000)       \* IAT slot of the import sum2
PtrSum2 == u32(\h0040, \h2004)       \* a word holding the address of that slot
PtrCallee == u32(\h0040, \h2008)     \* a word holding the address of guest code
IatMissing == u32(\h0040, \h200C)    \* IAT slot of an import without handler
PtrMissing == u32(\h0040, \h2010)    \* a word holding the address of that slot
Data == u32(\h0040, \h2020)
\* the stack mapping alloc returns for this image: addr 0x1000, size 0x10000
StackEnd == u32(\h0001, \h0FFC)

\* X86.imports after load_exe: IAT slot address -> winapi::resolve(sym)
GuestImports == (IatSum2 :> "sum2") @@ (IatMissing :> "None")

\* the arity the import at an IAT slot was declared with
declared_arity(slot) == IF slot = IatMissing THEN 2 ELSE api_params(GuestImports[slot])

\* The machine after load_exe of the guest, with 0xCAFEBABE left in the IAT
\* slot of sum2 and the arguments 3 and 4 of a coming call pushed.
GuestMachine ==
    LET x0 == [X86_new EXCEPT !.mem.len = ToNat(u32(\h0040, \h4000)),
                              !.regs.esp = StackEnd, !.regs.ebp = StackEnd,
                              !.regs.eip = EntryPoint,
                              !.imports = GuestImports]
        x1 == write_u32(x0, IatSum2, u32(\hCAFE, \hBABE))
        x2 == write_u32(x1, PtrSum2, IatSum2)
        x3 == write_u32(x2, PtrCallee, Callee)
        x4 == write_u32(x3, PtrMissing, IatMissing)
    IN  push(push(x4, u32(0, 4)), u32(0, 3))

\* a decoded instruction, as iced_x86 reports it
Instr(code, len) ==
    [code |-> code, len |-> len, prefix |-> FALSE,
     op0_kind |-> "None", op0_register |-> "None",
     op1_kind |-> "None", op1_register |-> "None",
     memory_base |-> "None", memory_index |-> "None", memory_index_scale |-> 1,
     memory_displacement32 |-> u32(0, 0),
     imm8 |-> u8(0), imm16 |-> u16(0), imm32 |-> u32(0, 0),
     near_branch32 |-> u32(0, 0)]

\* ... with a memory operand [disp32]
AtDisp(i, n, disp) ==
    [i EXCEPT !["op" \o n \o "_kind"] = "Memory", !.memory_displacement32 = disp]
\* ... with a memory operand [base + disp32]
AtBase(i, n, base, disp) ==
    [i EXCEPT !["op" \o n \o "_kind"] = "Memory", !.memory_base = base,
              !.memory_displacement32 = disp]
\* ... whose memory operand has an index register and a scale
AtIndex(i, index, scale) == [i EXCEPT !.memory_index = index, !.memory_index_scale = scale]
\* ... with a register operand
Reg0(i, reg) == [i EXCEPT !.op0_kind = "Register", !.op0_register = reg]
Reg1(i, reg) == [i EXCEPT !.op1_kind = "Register", !.op1_register = reg]
Imm8to32(i, v) == [i EXCEPT !.op1_kind = "Immediate8to32", !.imm8 = u8(v)]

\* the instructions the decoder may find at eip
Program ==
    { [Instr("Enterd_imm16_imm8", 4) EXCEPT !.imm16 = u16(\h10)],
      [Instr("Call_rel32_32", 5) EXCEPT !.near_branch32 = Callee],
      AtDisp(Instr("Call_rm32", 6), "0", IatSum2),
      AtDisp(Instr("Call_rm32", 6), "0", PtrSum2),
      AtDisp(Instr("Call_rm32", 6), "0", PtrCallee),
      AtDisp(Instr("Call_rm32", 6), "0", PtrMissing),
      Instr("Retnd", 1),
      [Instr("Jmp_rel32_32", 5) EXCEPT !.near_branch32 = Callee],
      [Instr("Pushd_imm8", 2) EXCEPT !.imm8 = u8(\hF0)],
      [Instr("Pushd_imm32", 5) EXCEPT !.imm32 = u32(\hDEAD, \hC0DE)],
      Reg0(Instr("Push_r32", 1), "EAX"),
      AtDisp(Instr("Push_rm32", 6), "0", PtrCallee),
      Reg0(Instr("Pop_r32", 1), "ECX"),
      [AtDisp(Instr("Mov_rm32_imm32", 10), "0", Data) EXCEPT !.imm32 = u32(\h1234, \h5678)],
      [Reg0(Instr("Mov_r32_imm32", 5), "ESP") EXCEPT !.imm32 = u32(0, 4)],
      [Reg0(Instr("Mov_r32_imm32", 5), "EAX") EXCEPT !.imm32 = u32(0, 42)],
      AtDisp(Instr("Mov_moffs32_EAX", 5), "0", Data),
      AtDisp(Instr("Mov_EAX_moffs32", 5), "1", IatSum2),
      Reg1(Reg0(Instr("Mov_rm32_r32", 2), "EBP"), "ESP"),
      Reg1(AtBase(Instr("Mov_rm32_r32", 3), "0", "ESP", u32(0, 4)), "EBX"),
      Reg1(Reg0(Instr("Mov_r32_rm32", 2), "ESI"), "EDI"),
      AtBase(Reg0(Instr("Mov_r32_rm32", 3), "EDX"), "1", "ESP", u32(0, 4)),
      Imm8to32(Reg0(Instr("And_rm32_imm8", 3), "EAX"), \hF0),
      Imm8to32(AtDisp(Instr("And_rm32_imm8", 7), "0", IatSum2), \hF0),
      Reg1(Reg0(Instr("Xor_rm32_r32", 2), "EAX"), "EAX"),
      Imm8to32(Reg0(Instr("Sub_rm32_imm8", 3), "ESP"), 8),
      [Reg0(Instr("Sub_rm32_imm32", 6), "EDI") EXCEPT !.op1_kind = "Immediate32",
                                                     !.imm32 = u32(\h0001, \h0000)],
      AtBase(Reg0(Instr("Lea_r32_m", 4), "EAX"), "1", "ESP", u32(0, \h10)),
      AtIndex(AtBase(Reg0(Instr("Lea_r32_m", 4), "EDX"), "1", "ESP", u32(0, \h10)), "ECX", 1),
      AtIndex(AtBase(Reg0(Instr("Lea_r32_m", 4), "EAX"), "1", "EBX", u32(0, 8)), "ECX", 4),
      Instr("Nopd", 1),
      Reg1(Reg0(Instr("Add_rm32_r32", 2), "EAX"), "ECX") }

\* the words the driver pushes
PushValues == {u32(\hDEAD, \hC0DE), u32(0, 7)}

\* the mappings the loader adds and the sizes it allocates
MapAddrs == {u32(0, \h1000), u32(0, \h1800), u32(0, \h3000), u32(\h0040, \h1000)}
MapSizes == {u32(0, \h0800), u32(0, \h1000)}
AllocSizes == {u32(0, \h0800), u32(0, \h1000), u32(\h0001, \h0000)}

\* the values written to registers
Values32 == {u32(\hDEAD, \hBEEF), u32(\h1234, \h5678)}
Values8 == {u8(\hA5), u8(\h00)}
Regs32 == {"EAX", "ECX", "EDX", "EBX", "ESP", "EBP", "ESI", "EDI"}
Regs8 == Low8 \cup High8
Values16 == {u16(\hCAFE), u16(\h0000)}
Regs16 == Gp16 \cup {"ES"}

\* operands of the integer core, per width: the extremes, the sign boundary,
\* and some values in between
Samples(W) ==
    { NatBits(0, W), NatBits(1, W), NatBits(2, W), NatBits(\h5A, W),
      [i \in 1..W |-> 1],                                \* 2^W - 1
      [i \in 1..W |-> IF i = W THEN 1 ELSE 0],           \* 2^(W-1)
      [i \in 1..W |-> IF i = W THEN 0 ELSE 1],           \* 2^(W-1) - 1
      [i \in 1..W |-> IF i = W \/ i = 1 THEN 1 ELSE 0],  \* 2^(W-1) + 1
      [i \in 1..W |-> IF i = 1 THEN 0 ELSE 1] }          \* 2^W - 2
\* every 8-bit value; the samples of the wider types
Operands(W) == IF W = 8 THEN {NatBits(n, 8) : n \in 0..255} ELSE Samples(W)
Widths == {8, 16, 32}
\* shift counts (imm8, or cl): none, one, and around each width
ShiftCounts == {0, 1, 7, 8, 9, 16, 31, 32, 33}

\* the state after construction, in either build; the machine is x
Constructed(x) ==
    /\ overflow_checks \in BOOLEAN
    /\ panicked = FALSE
    /\ mappings = AppState_new
    /\ mem = x.mem
    /\ regs = x.regs
    /\ imports = x.imports
    /\ registers = Registers_new
    /\ steps = 0

\* AppState::new, X86::new, Registers::new
Init == Constructed(X86_new) /\ call = NoCall

\* ... and the guest loaded
InitCpu == Constructed(GuestMachine) /\ call = NoCall

---------------------------------------------------------------------------
(* The address space: the loader's add_mapping and alloc calls. *)

AddMapping ==
    \E a \in MapAddrs, s \in MapSizes :
        LET mapping == Mapping(a, s, "section")
            r == add_mapping(mappings, mapping, overflow_checks)
        IN  /\ ~panicked
            /\ Len(mappings) < MaxMappings
            /\ mappings' = r.mappings
            /\ panicked' = r.panic
            /\ call' = Call("add_mapping", mapping, <<>>, "", mappings)
            /\ steps' = steps + 1
            /\ UNCHANGED <<overflow_checks, mem, regs, imports, registers>>

Alloc ==
    \E s \in AllocSizes :
        LET r == alloc(mappings, s, "stack", overflow_checks)
        IN  /\ ~panicked
            /\ Len(mappings) < MaxMappings
            /\ mappings' = r.mappings
            /\ panicked' = r.panic
            /\ call' = Call("alloc", s, r.ret, "", mappings)
            /\ steps' = steps + 1
            /\ UNCHANGED <<overflow_checks, mem, regs, imports, registers>>

NextMap == AddMapping \/ Alloc

SpecMap == Init /\ [][NextMap]_vars

---------------------------------------------------------------------------
(* The interpreter: step, and the public push and pop. *)

Machine == [mem |-> mem, regs |-> regs, imports |-> imports, panic |-> FALSE]

Becomes(x) ==
    /\ mem' = x.mem
    /\ regs' = x.regs
    /\ imports' = x.imports
    /\ panicked' = x.panic
    /\ steps' = steps + 1
    /\ UNCHANGED <<overflow_checks, mappings, registers>>

Step ==
    \E instr \in Program :
        LET r == step(Machine, instr)
        IN  /\ ~panicked
            /\ steps < MaxSteps
            /\ Becomes(r.x)
            /\ call' = Call("step", instr, <<>>, r.err, Machine)

Push ==
    \E v \in PushValues :
        /\ ~panicked
        /\ steps < MaxSteps
        /\ Becomes(push(Machine, v))
        /\ call' = Call("push", v, <<>>, "", Machine)

Pop ==
    /\ ~panicked
    /\ steps < MaxSteps
    /\ Becomes(pop(Machine))
    /\ call' = Call("pop", <<>>, pop_value(Machine), "", Machine)

NextCpu == Step \/ Push \/ Pop

SpecCpu == InitCpu /\ [][NextCpu]_vars

---------------------------------------------------------------------------
(* The register file: set32 and set8. *)

Set32 ==
    \E reg \in Regs32, v \in Values32 :
        /\ ~panicked
        /\ steps < MaxCalls
        /\ registers' = set32(registers, reg, v)
        /\ call' = Call("set32", <<reg, v>>, <<>>, "", registers)
        /\ steps' = steps + 1
        /\ UNCHANGED <<overflow_checks, panicked, mappings, mem, regs, imports>>

Set8 ==
    \E reg \in Regs8, v \in Values8 :
        /\ ~panicked
        /\ steps < MaxCalls
        /\ registers' = set8(registers, reg, v)
        /\ call' = Call("set8", <<reg, v>>, <<>>, "", registers)
        /\ steps' = steps + 1
        /\ UNCHANGED <<overflow_checks, panicked, mappings, mem, regs, imports>>

Set16 ==
    \E reg \in Regs16, v \in Values16 :
        /\ ~panicked
        /\ steps < MaxCalls
        /\ registers' = IF set16_ok(reg) THEN set16(registers, reg, v) ELSE registers
        /\ panicked' = ~set16_ok(reg)
        /\ call' = Call("set16", <<reg, v>>, <<>>, "", registers)
        /\ steps' = steps + 1
        /\ UNCHANGED <<overflow_checks, mappings, mem, regs, imports>>

NextRegs == Set32 \/ Set8 \/ Set16

SpecRegs == Init /\ [][NextRegs]_vars

---------------------------------------------------------------------------
(* The FPU accessors, called on a register file whose stack top is anywhere
   in 0..8 (8: the empty stack Registers::new leaves) and whose lanes hold
   distinct values. *)

StRegs == {"ST0", "ST1", "ST2"}

InitFpu ==
    /\ overflow_checks \in BOOLEAN
    /\ panicked = FALSE
    /\ mappings = AppState_new
    /\ mem = X86_new.mem
    /\ regs = X86_new.regs
    /\ imports = X86_new.imports
    /\ \E t \in 0..8 :
           registers = [Registers_new EXCEPT !.st_top = t, !.st = [i \in 1..8 |-> i]]
    /\ call = NoCall
    /\ steps = 0

\* the state after an accessor that gave a
Accessed(name, arg, a) ==
    /\ ~panicked
    /\ steps < MaxCalls
    /\ panicked' = a.panic
    /\ call' = Call(name, arg, a.lanes, "", registers.st_top)
    /\ steps' = steps + 1
    /\ UNCHANGED <<overflow_checks, mappings, mem, regs, imports>>

StTop == Accessed("st_top", <<>>, st_top(registers)) /\ UNCHANGED registers

GetSt ==
    \E reg \in StRegs :
        Accessed("getst", <<reg>>, getst(registers, reg)) /\ UNCHANGED registers

StSwap ==
    \E r1 \in StRegs, r2 \in StRegs :
        LET a == st_swap(registers, r1, r2)
        IN  /\ Accessed("st_swap", <<r1, r2>>, a)
            /\ registers' = [registers EXCEPT !.st = a.st]

NextFpu == StTop \/ GetSt \/ StSwap

SpecFpu == InitFpu /\ [][NextFpu]_vars

---------------------------------------------------------------------------
(* The integer core: add and sub, applied once to operands drawn at the     *)
(* start, with the flags some earlier instruction left.                     *)

InitFlags == {{}, {"CF", "DF", "OF"}, {"ZF", "SF", "DF"}}

InitMath ==
    /\ overflow_checks \in BOOLEAN
    /\ panicked = FALSE
    /\ mappings = AppState_new
    /\ mem = X86_new.mem
    /\ regs = X86_new.regs
    /\ imports = X86_new.imports
    /\ \E f \in InitFlags : registers = [Registers_new EXCEPT !.flags = f]
    /\ \E W \in Widths : \E x \in Operands(W), y \in Samples(W) :
           call = Call("operands", <<x, y>>, <<>>, "", <<>>)
    /\ steps = 0

Add ==
    LET x == call.arg[1]
        y == call.arg[2]
        r == add(registers, x, y)
    IN  /\ call.op = "operands"
        /\ registers' = r.regs
        /\ call' = Call("add", <<x, y>>, r.result, "", registers.flags)
        /\ UNCHANGED <<overflow_checks, panicked, mappings, mem, regs, imports, steps>>

Sub ==
    LET x == call.arg[1]
        y == call.arg[2]
        r == sub(registers, x, y)
    IN  /\ call.op = "operands"
        /\ registers' = r.regs
        /\ call' = Call("sub", <<x, y>>, r.result, "", registers.flags)
        /\ UNCHANGED <<overflow_checks, panicked, mappings, mem, regs, imports, steps>>

\* the state after a shift helper that returned r
Shifted(name, x, y, r) ==
    /\ call.op = "operands"
    /\ registers' = r.regs
    /\ panicked' = r.panic
    /\ call' = Call(name, <<x, y>>, r.result, "", registers.flags)
    /\ UNCHANGED <<overflow_checks, mappings, mem, regs, imports, steps>>

ShlOp ==
    \E y \in ShiftCounts :
        Shifted("shl", call.arg[1], y, shl(registers, call.arg[1], y, overflow_checks))

ShrOp ==
    \E y \in ShiftCounts :
        Shifted("shr", call.arg[1], y, shr(registers, call.arg[1], y, overflow_checks))

SarOp ==
    \E y \in ShiftCounts :
        Shifted("sar", call.arg[1], y, sar(registers, call.arg[1], y, overflow_checks))

RorOp ==
    \E y \in ShiftCounts :
        /\ Len(call.arg[1]) = 32
        /\ Shifted("ror", call.arg[1], y, ror_rm32_cl(registers, call.arg[1], y))

NextMath == Add \/ Sub \/ ShlOp \/ ShrOp \/ SarOp \/ RorOp

SpecMath == InitMath /\ [][NextMath]_vars

---------------------------------------------------------------------------
(* The divisions: div and idiv, applied once to edx:eax and a divisor drawn  *)
(* at the start.                                                            *)

Dividends ==
    {u32(0, 0), u32(0, 1), u32(0, 7), u32(\h7FFF, \hFFFF), u32(\h8000, 0),
     u32(\hFFFF, \hFFF9), u32(\hFFFF, \hFFFF)}
Divisors ==
    {u32(0, 0), u32(0, 1), u32(0, 2), u32(0, 3), u32(\h8000, 0),
     u32(\hFFFF, \hFFFE), u32(\hFFFF, \hFFFF)}

InitDiv ==
    /\ overflow_checks \in BOOLEAN
    /\ panicked = FALSE
    /\ mappings = AppState_new
    /\ mem = X86_new.mem
    /\ regs = X86_new.regs
    /\ imports = X86_new.imports
    /\ \E d \in Dividends, a \in Dividends :
           registers = [Registers_new EXCEPT !.edx = d, !.eax = a]
    /\ \E y \in Divisors : call = Call("operands", <<y>>, <<>>, "", <<>>)
    /\ steps = 0

\* the state after a division that returned r
Divided(name, y, r) ==
    /\ call.op = "operands"
    /\ registers' = r.regs
    /\ panicked' = r.panic
    /\ call' = Call(name, <<y>>, <<>>, r.err, registers)
    /\ UNCHANGED <<overflow_checks, mappings, mem, regs, imports, steps>>

Idiv == Divided("idiv", call.arg[1], idiv_rm32(registers, call.arg[1]))

Div == Divided("div", call.arg[1], div_rm32(registers, call.arg[1]))

NextDiv == Idiv \/ Div

SpecDiv == InitDiv /\ [][NextDiv]_vars

---------------------------------------------------------------------------
(* The loader, on executables of three section layouts. *)

Section(name, va, size, raw, uninit) ==
    [name |-> name, virtual_address |-> va, size_of_raw_data |-> size,
     pointer_to_raw_data |-> raw, uninitialized_data |-> uninit]

\* .text at VA 0x1000 and .data at VA 0x2000, 0x1000 bytes each
TwoSections ==
    <<Section(".text", u32(0, \h1000), u32(0, \h1000), u32(0, \h0400), FALSE),
      Section(".data", u32(0, \h2000), u32(0, \h1000), u32(0, \h1400), FALSE)>>
\* .text alone
OneSection == <<TwoSections[1]>>
\* .text, a hole of one page, and an uninitialized .bss
WithBss ==
    <<TwoSections[1],
      Section(".bss", u32(0, \h3000), u32(0, \h1000), u32(0, 0), TRUE)>>
Layouts == {TwoSections, OneSection, WithBss}

\* the bytes of the file: headers, then the raw data of .text and of .data
FileBytes == [len |-> 9216, bytes |-> (1024 :> 195) @@ (5120 :> 7)]

\* the record pe::parse returns for a file of this layout
PeFile(base, layout, reserve, entry) ==
    [parses |-> TRUE,
     image_base |-> base,
     size_of_image |-> wrapping_add(layout[Len(layout)].virtual_address, u32(0, \h1000)),
     sections |-> layout,
     size_of_stack_reserve |-> reserve,
     address_of_entry_point |-> entry,
     imports_data |-> IF layout = TwoSections
                      THEN [virtual_address |-> u32(0, \h2000), size |-> u32(0, 40)]
                      ELSE [virtual_address |-> u32(0, 0), size |-> u32(0, 0)],
     imports |-> IF layout = TwoSections
                 THEN (wrapping_add(base, u32(0, \h2000)) :> "sum2")
                      @@ (wrapping_add(base, u32(0, \h200C)) :> "absent")
                 ELSE <<>>,
     buf |-> FileBytes]

ImageBases == {u32(0, 0), u32(1, 0), u32(\h0040, 0)}
StackReserves ==
    {u32(0, 0), u32(0, 2), u32(0, 4), u32(0, \h1000),
     u32(\h0010, 0), u32(\h0010, 1), u32(\h0100, 0)}
EntryPoints == {u32(0, \h1000), u32(0, \h1800)}

\* a buffer pe::parse rejects
NotAPe == [PeFile(u32(0, 0), OneSection, u32(0, 0), u32(0, 0)) EXCEPT !.parses = FALSE]

Files ==
    {PeFile(b, l, r, e) : b \in ImageBases, l \in Layouts,
                          r \in StackReserves, e \in EntryPoints} \cup {NotAPe}

\* load_exe builds the machine; it is called once, before anything runs
LoadExe ==
    \E file \in Files :
        LET r == load_exe(file, overflow_checks)
        IN  /\ steps = 0
            /\ mappings' = r.mappings
            /\ mem' = r.x.mem
            /\ regs' = r.x.regs
            /\ imports' = r.x.imports
            /\ panicked' = r.x.panic
            /\ call' = Call("load_exe", file, r.image_base, r.err, <<>>)
            /\ steps' = 1
            /\ UNCHANGED <<overflow_checks, registers>>

NextLoad == LoadExe

SpecLoad == Init /\ [][NextLoad]_vars

---------------------------------------------------------------------------
(* The generated shims, called on a machine with three words on its stack. *)

RECURSIVE write_bytes(_, _, _)
\* the bytes s stored in memory from address a on
write_bytes(m, a, s) ==
    IF s = <<>> THEN m ELSE write_bytes(mem_set(m, a, Head(s)), a + 1, Tail(s))

\* "hello" and "hi" in ASCII
StrHello == <<104, 101, 108, 108, 111>>
StrHi == <<104, 105>>
PtrHello == Data
PtrHi == u32(\h0040, \h2028)

\* the words a guest pushes before it calls an API
StackWords == {PtrHello, PtrHi, u32(0, 5), u32(0, 0)}

\* the guest machine with "hello\0" and "hi\0" in its data and c, b, a pushed
ShimMachine(a, b, c) ==
    LET x0 == [X86_new EXCEPT !.mem.len = ToNat(u32(\h0040, \h4000)),
                              !.regs.esp = StackEnd, !.regs.ebp = StackEnd,
                              !.regs.eip = EntryPoint]
        m1 == write_bytes(x0.mem, ToNat(PtrHello), StrHello)
        m2 == write_bytes(m1, ToNat(PtrHi), StrHi)
    IN  push(push(push([x0 EXCEPT !.mem = m2], c), b), a)

InitShim ==
    \E a \in StackWords, b \in StackWords, c \in StackWords :
        Constructed(ShimMachine(a, b, c)) /\ call = NoCall

\* a shim generated by winapi_shims!
WinapiShim ==
    \E name \in {"sum2", "seven"} :
        LET types == [k \in 1..api_params(name) |-> "u32"]
        IN  /\ ~panicked
            /\ steps < MaxCalls
            /\ Becomes(shim(Machine, name))
            /\ call' = Call("winapi_shim", <<name, types>>,
                            pop_params(Machine, api_params(name), <<>>).args, "", Machine)

\* a shim generated by the winapi_macro_derive attribute
HelloShim ==
    \E name \in {"strlen", "pick"} :
        LET r == hello_shim(Machine, name)
        IN  /\ ~panicked
            /\ steps < MaxCalls
            /\ Becomes(r.x)
            /\ call' = Call("hello_shim", <<name, hello_params(name)>>, r.args, "", Machine)

NextShim == WinapiShim \/ HelloShim

SpecShim == InitShim /\ [][NextShim]_vars

---------------------------------------------------------------------------
(* The instruction handlers of math.rs, applied once to the value of the
   destination operand and the value of the source operand. *)

\* the state after a handler that returned r
Handled2(name, r) ==
    /\ call.op = "operands"
    /\ registers' = r.regs
    /\ panicked' = r.panic
    /\ call' = Call(name, call.arg, r.result, "", registers.flags)
    /\ UNCHANGED <<overflow_checks, mappings, mem, regs, imports, steps>>

SbbR32Rm32 ==
    /\ Len(call.arg[1]) = 32
    /\ Handled2("sbb_r32_rm32", sbb_r32_rm32(registers, call.arg[1], call.arg[2]))

SbbRm32R32 ==
    /\ Len(call.arg[1]) = 32
    /\ Handled2("sbb_rm32_r32",
                sbb_rm32_r32(registers, call.arg[1], call.arg[2], overflow_checks))

SbbR8Rm8 ==
    /\ Len(call.arg[1]) = 8
    /\ Handled2("sbb_r8_rm8", sbb_r8_rm8(registers, call.arg[1], call.arg[2]))

AndRm32R32 ==
    /\ Len(call.arg[1]) = 32
    /\ Handled2("and_rm32_r32", and_rm32_r32(registers, call.arg[1], call.arg[2]))

AndR32Rm32 ==
    /\ Len(call.arg[1]) = 32
    /\ Handled2("and_r32_rm32", and_r32_rm32(registers, call.arg[1], call.arg[2]))

\* the loaded guest with the value x in eax and in the word at Data
WithOperand(x) == write_u32([GuestMachine EXCEPT !.regs.eax = x], Data, x)

\* `and eax, imm8` and `and dword ptr [Data], imm8` as X86::run executes them,
\* on the destination value x and the low byte of y as the immediate
AndRm32Imm8 ==
    \E kind \in {"Register", "Memory"} :
        LET x == call.arg[1]
            imm == ToNat(Trunc(call.arg[2], 8))
            instr == IF kind = "Register"
                     THEN Imm8to32(Reg0(Instr("And_rm32_imm8", 3), "EAX"), imm)
                     ELSE Imm8to32(AtDisp(Instr("And_rm32_imm8", 7), "0", Data), imm)
            r == run_and_rm32_imm8(WithOperand(x), instr)
        IN  /\ call.op = "operands"
            /\ Len(x) = 32
            /\ mem' = r.mem
            /\ regs' = r.regs
            /\ imports' = r.imports
            /\ panicked' = r.panic
            /\ call' = Call("and_rm32_imm8", <<x, u8(imm), kind>>,
                            IF kind = "Register" THEN r.regs.eax ELSE read_u32(r, Data),
                            "", registers.flags)
            /\ UNCHANGED <<overflow_checks, mappings, registers, steps>>

DecRm32 ==
    /\ Len(call.arg[1]) = 32
    /\ Handled2("dec_rm32", dec_rm32(registers, call.arg[1]))

DecRm8 ==
    /\ Len(call.arg[1]) = 8
    /\ Handled2("dec_rm8", dec_rm8(registers, call.arg[1]))

IncRm32 ==
    /\ Len(call.arg[1]) = 32
    /\ Handled2("inc_rm32", inc_rm32(registers, call.arg[1], overflow_checks))

IncRm8 ==
    /\ Len(call.arg[1]) = 8
    /\ Handled2("inc_rm8", inc_rm8(registers, call.arg[1]))

NextAlu ==
    \/ SbbR32Rm32 \/ SbbRm32R32 \/ SbbR8Rm8
    \/ AndRm32R32 \/ AndR32Rm32 \/ AndRm32Imm8
    \/ DecRm32 \/ DecRm8 \/ IncRm32 \/ IncRm8

SpecAlu == InitMath /\ [][NextAlu]_vars

---------------------------------------------------------------------------
(* Properties of the address space. *)

\* the sum of two u32 as a pair <<high bit 2^32, low 32 bits>>, so that two
\* sums compare as natural numbers
Sum33(x, y) == AddCarry(x, y, 0)

\* C1: as long as add_mapping and alloc return normally, the mapping list is
\* sorted strictly by addr and consecutive mappings do not overlap:
\* m_i.addr + m_i.size <= m_(i+1).addr, also when sizes are not multiples of
\* 0x1000.
C1_SortedDisjoint ==
    ~panicked =>
        \A i \in 1..(Len(mappings) - 1) :
            /\ Lt(mappings[i].addr, mappings[i + 1].addr)
            /\ Le(Sum33(mappings[i].addr, mappings[i].size), mappings[i + 1].addr \o <<0>>)

\* alloc returned normally with a mapping it placed before one of lower addr
C1_Witness ==
    /\ ~panicked
    /\ call.op = "alloc"
    /\ \E i \in 1..(Len(mappings) - 1) :
           /\ mappings[i] = call.ret
           /\ Gt(mappings[i].addr, mappings[i + 1].addr)

---------------------------------------------------------------------------
(* Properties of the interpreter. *)

\* the little-endian word at address a (a natural) of memory m
WordAt(m, a) ==
    u8(mem_get(m, a)) \o u8(mem_get(m, a + 1)) \o u8(mem_get(m, a + 2)) \o u8(mem_get(m, a + 3))

\* the word is below 2^30, so that it can be read as a natural
Small(w) == w[31] = 0 /\ w[32] = 0

\* the word n places above the address w (both below 2^30)
Plus(w, n) == NatBits(ToNat(w) + n, 32)

\* lo <= w <= hi as natural numbers
Within(w, lo, hi) == Small(w) /\ lo <= ToNat(w) /\ ToNat(w) <= hi

\* the last call was a step on an instruction with this code that returned
\* (Ok or Err) rather than panicked
Stepped(code) == call.op = "step" /\ call.arg.code = code /\ ~panicked

\* C2: a `call dword ptr [slot]` whose slot address is a key of the import
\* table with a handler invokes that handler whatever the slot holds: eax is
\* the handler's result on the popped words, esp has moved by what the
\* handler popped, no return address is written, and eip is the address of
\* the next instruction.
C2_CallThroughSlot ==
    (call.op = "step" /\ call.arg.code = "Call_rm32"
        /\ addr(call.pre, call.arg) \in DOMAIN call.pre.imports
        /\ call.pre.imports[addr(call.pre, call.arg)] # "None") =>
        LET pre == call.pre
            h == pre.imports[addr(pre, call.arg)]
            sp == ToNat(pre.regs.esp)
            args == [k \in 1..api_params(h) |-> WordAt(pre.mem, sp + 4 * (k - 1))]
        IN  /\ ~panicked
            /\ regs.eax = api_body(h, args)
            /\ regs.esp = Plus(pre.regs.esp, 4 * api_params(h))
            /\ regs.eip = Plus(pre.regs.eip, call.arg.len)
            /\ mem = pre.mem

\* a call through the slot of sum2 that went to the word the slot holds
C2_Witness ==
    /\ Stepped("Call_rm32")
    /\ addr(call.pre, call.arg) = IatSum2
    /\ regs.eip = u32(\hCAFE, \hBABE)
    /\ regs.esp = Plus(call.pre.regs.esp, -4)

\* C3: an indirect call that resolves to an import whose handler is None
\* returns normally with eax = 0, esp raised by 4 times the declared arity of
\* the import, no return address written, and eip at the next instruction.
C3_CallMissingImport ==
    (call.op = "step" /\ call.arg.code = "Call_rm32"
        /\ read_u32(call.pre, addr(call.pre, call.arg)) \in DOMAIN call.pre.imports
        /\ call.pre.imports[read_u32(call.pre, addr(call.pre, call.arg))] = "None") =>
        LET pre == call.pre
            slot == read_u32(pre, addr(pre, call.arg))
        IN  /\ ~panicked
            /\ call.err = ""
            /\ regs.eax = u32(0, 0)
            /\ regs.esp = Plus(pre.regs.esp, 4 * declared_arity(slot))
            /\ regs.eip = Plus(pre.regs.eip, call.arg.len)
            /\ mem = pre.mem

\* a call of the import without handler that left eax and esp as they were
C3_Witness ==
    /\ Stepped("Call_rm32")
    /\ read_u32(call.pre, addr(call.pre, call.arg)) = IatMissing
    /\ regs.eax = call.pre.regs.eax /\ regs.eax # u32(0, 0)
    /\ regs.esp = call.pre.regs.esp

\* C4: after a step that returns Ok, eip is the pre-step eip plus the length
\* of the instruction unless the instruction transfers control; it is the
\* branch target after call rel32, jmp rel32 and a call rm32 outside the
\* import table, and the popped word after ret.  The return address a call
\* pushes is the pre-step eip plus the length of the call.
C4_EipAfterStep ==
    (call.op = "step" /\ ~panicked /\ call.err = "") =>
        LET pre == call.pre
            instr == call.arg
            next == Plus(pre.regs.eip, instr.len)
            target == WordAt(pre.mem, ToNat(addr(pre, instr)))
            pushed == WordAt(mem, ToNat(regs.esp))
        IN  CASE instr.code = "Call_rel32_32" ->
                   regs.eip = instr.near_branch32 /\ pushed = next
              [] instr.code = "Jmp_rel32_32" -> regs.eip = instr.near_branch32
              [] instr.code = "Call_rm32" ->
                   IF target \in DOMAIN imports THEN regs.eip = next
                   ELSE regs.eip = target /\ pushed = next
              [] instr.code = "Retnd" -> regs.eip = WordAt(pre.mem, ToNat(pre.regs.esp))
              [] OTHER -> regs.eip = next

\* a step that transferred control with a call and pushed its return address
C4_Witness ==
    /\ Stepped("Call_rel32_32")
    /\ regs.eip = Callee
    /\ WordAt(mem, ToNat(regs.esp)) = Plus(EntryPoint, 5)

C8_PushPop ==
    [][/\ (call'.op = "push" /\ Within(regs.esp, 4, mem.len)) =>
            /\ ~panicked'
            /\ regs' = [regs EXCEPT !.esp = Plus(regs.esp, -4)]
            /\ mem'.len = mem.len
            /\ \A a \in DOMAIN mem.bytes \cup DOMAIN mem'.bytes :
                   (a < ToNat(regs.esp) - 4 \/ a >= ToNat(regs.esp)) =>
                       mem_get(mem', a) = mem_get(mem, a)
            /\ WordAt(mem', ToNat(regs.esp) - 4) = call'.arg
       /\ (call.op = "push" /\ call'.op = "pop"
              /\ Within(call.pre.regs.esp, 4, mem.len)) =>
            /\ ~panicked'
            /\ call'.ret = call.arg
            /\ regs'.esp = call.pre.regs.esp
            /\ regs' = call.pre.regs
            /\ mem' = mem
      ]_vars

\* a pop that returned the word the push before it stored
C8_Witness ==
    /\ call.op = "pop" /\ call.ret = u32(\hDEAD, \hC0DE)
    /\ steps = 2
    /\ regs.esp = GuestMachine.regs.esp
    /\ WordAt(mem, ToNat(regs.esp) - 4) = u32(\hDEAD, \hC0DE)

---------------------------------------------------------------------------
(* Properties of the integer core.  The expected result is computed on the  *)
(* two halves of the operands as natural numbers, not with the adder of the *)
(* model.                                                                   *)

HalfBits(w) == Len(w) \div 2
Half(w) == 2 ^ HalfBits(w)
Lo(w) == ToNat(SubSeq(w, 1, HalfBits(w)))
Hi(w) == ToNat(SubSeq(w, HalfBits(w) + 1, Len(w)))

\* (x + y) mod 2^W, and whether x + y >= 2^W
SumOf(x, y) ==
    LET lo == Lo(x) + Lo(y)
        hi == Hi(x) + Hi(y) + (lo \div Half(x))
    IN  [result |-> NatBits(lo % Half(x), HalfBits(x)) \o NatBits(hi % Half(x), HalfBits(x)),
         carry |-> hi >= Half(x)]

\* (x - y) mod 2^W, and whether x < y
DiffOf(x, y) ==
    LET borrow == IF Lo(x) < Lo(y) THEN 1 ELSE 0
        lo == Lo(x) - Lo(y) + Half(x) * borrow
        less == Hi(x) < Hi(y) \/ (Hi(x) = Hi(y) /\ Lo(x) < Lo(y))
        hi == Hi(x) - Hi(y) - borrow + (IF less THEN Half(x) ELSE 0)
    IN  [result |-> NatBits(lo, HalfBits(x)) \o NatBits(hi, HalfBits(x)),
         carry |-> less]

\* C6: for W in {8, 16, 32} and all W-bit x, y, add returns (x + y) mod 2^W
\* and leaves CF = (x + y >= 2^W), ZF = (result = 0), SF = bit W-1 of the
\* result, and OF = 1 exactly when x and y have the same sign bit and the
\* result has the other one.
C6_AddResultFlags ==
    call.op = "add" =>
        LET x == call.arg[1]
            y == call.arg[2]
            W == Len(x)
            result == call.ret
            f == registers.flags
        IN  /\ W \in Widths /\ Len(y) = W
            /\ result = SumOf(x, y).result
            /\ ("CF" \in f) <=> SumOf(x, y).carry
            /\ ("ZF" \in f) <=> (\A i \in 1..W : result[i] = 0)
            /\ ("SF" \in f) <=> (result[W] = 1)
            /\ ("OF" \in f) <=> (x[W] = y[W] /\ result[W] # x[W])

\* add of 0x80000000 and 0x80000001: result 1, CF and OF set, ZF and SF clear
C6_Witness ==
    /\ call.op = "add"
    /\ call.arg = <<u32(\h8000, 0), u32(\h8000, 1)>>
    /\ call.ret = u32(0, 1)
    /\ registers.flags \cap {"CF", "ZF", "SF", "OF"} = {"CF", "OF"}

\* C7: for W in {8, 16, 32} and all W-bit x, y, sub returns (x - y) mod 2^W
\* and leaves CF = (x < y), ZF = (result = 0), SF = bit W-1 of the result,
\* and OF = 1 exactly when x and y have different sign bits and the sign bit
\* of the result differs from that of x.
C7_SubResultFlags ==
    call.op = "sub" =>
        LET x == call.arg[1]
            y == call.arg[2]
            W == Len(x)
            result == call.ret
            f == registers.flags
        IN  /\ W \in Widths /\ Len(y) = W
            /\ result = DiffOf(x, y).result
            /\ ("CF" \in f) <=> DiffOf(x, y).carry
            /\ ("ZF" \in f) <=> (\A i \in 1..W : result[i] = 0)
            /\ ("SF" \in f) <=> (result[W] = 1)
            /\ ("OF" \in f) <=> (x[W] # y[W] /\ result[W] # x[W])

\* sub of 0x8000 and 1 at 16 bits: result 0x7FFF, only OF set
C7_Witness ==
    /\ call.op = "sub"
    /\ call.arg = <<u16(\h8000), u16(1)>>
    /\ call.ret = u16(\h7FFF)
    /\ registers.flags \cap {"CF", "ZF", "SF", "OF"} = {"OF"}

---------------------------------------------------------------------------
(* Properties of the register file. *)

\* the struct field named like a 32-bit register
FieldOf(reg) ==
    CASE reg = "EAX" -> "eax" [] reg = "ECX" -> "ecx"
      [] reg = "EDX" -> "edx" [] reg = "EBX" -> "ebx"
      [] reg = "ESP" -> "esp" [] reg = "EBP" -> "ebp"
      [] reg = "ESI" -> "esi" [] reg = "EDI" -> "edi"

\* C9: for each of the eight general-purpose registers r, get32(r) reads the
\* struct field named like r; after set32(r, v), get32(r) is v and every
\* other field (the other seven registers, eip, the segment registers, the
\* flags) is as before.
C9_Get32Set32 ==
    /\ \A r \in Regs32 :
           get32_ok(r) /\ get32(registers, r) = registers[FieldOf(r)]
    /\ call.op = "set32" =>
           LET r == call.arg[1]
               v == call.arg[2]
           IN  /\ get32(registers, r) = v
               /\ \A f \in DOMAIN registers \ {FieldOf(r)} :
                      registers[f] = call.pre[f]

\* ecx set after eax, each holding its own value
C9_Witness ==
    /\ call.op = "set32"
    /\ call.arg = <<"ECX", u32(\h1234, \h5678)>>
    /\ get32(registers, "ECX") = u32(\h1234, \h5678)
    /\ call.pre.eax = u32(\hDEAD, \hBEEF)
    /\ registers.eax = u32(\hDEAD, \hBEEF)

\* the field a byte register is part of, and the bits of it that it names
\* (bit i of the field is element i + 1)
ParentOf(b) ==
    CASE b \in {"AL", "AH"} -> "eax" [] b \in {"CL", "CH"} -> "ecx"
      [] b \in {"DL", "DH"} -> "edx" [] b \in {"BL", "BH"} -> "ebx"
BitsOf(b) == IF b \in {"AL", "CL", "DL", "BL"} THEN 1..8 ELSE 9..16
\* the other byte register of the same field
SiblingOf(b) ==
    CASE b = "AL" -> "AH" [] b = "AH" -> "AL" [] b = "CL" -> "CH" [] b = "CH" -> "CL"
      [] b = "DL" -> "DH" [] b = "DH" -> "DL" [] b = "BL" -> "BH" [] b = "BH" -> "BL"

\* C10: set8(b, v) changes only the eight bits of the parent register that b
\* names: get8(b) is then v, the other 24 bits of the parent are as before
\* (so the other byte register of the parent reads the same), and every
\* other register is unchanged.
C10_Set8Frame ==
    call.op = "set8" =>
        LET b == call.arg[1]
            v == call.arg[2]
            p == ParentOf(b)
            first == CHOOSE i \in BitsOf(b) : \A j \in BitsOf(b) : i <= j
        IN  /\ get8_ok(b)
            /\ get8(registers, b) = v
            /\ \A i \in BitsOf(b) : registers[p][i] = v[i - first + 1]
            /\ \A i \in (1..32) \ BitsOf(b) : registers[p][i] = call.pre[p][i]
            /\ get8(registers, SiblingOf(b)) = get8(call.pre, SiblingOf(b))
            /\ \A f \in DOMAIN registers \ {p} : registers[f] = call.pre[f]

\* AH set in an eax that held 0xDEADBEEF
C10_Witness ==
    /\ call.op = "set8"
    /\ call.arg = <<"AH", u8(\hA5)>>
    /\ call.pre.eax = u32(\hDEAD, \hBEEF)
    /\ registers.eax = u32(\hDEAD, \hA5EF)

\* the field a 16-bit general-purpose register is the low half of
ParentOf16(w) ==
    CASE w = "AX" -> "eax" [] w = "CX" -> "ecx" [] w = "DX" -> "edx" [] w = "BX" -> "ebx"
      [] w = "SP" -> "esp" [] w = "BP" -> "ebp" [] w = "SI" -> "esi" [] w = "DI" -> "edi"

\* C11: for each of AX, CX, DX, BX, SP, BP, SI, DI and every 16-bit v,
\* set16(w, v) returns normally, get16(w) then yields v, and the high 16 bits
\* of the parent register are as before.
C11_Set16Frame ==
    (call.op = "set16" /\ call.arg[1] \in Gp16) =>
        LET w == call.arg[1]
            v == call.arg[2]
            p == ParentOf16(w)
        IN  /\ ~panicked
            /\ get16(registers, w) = v
            /\ \A i \in 17..32 : registers[p][i] = call.pre[p][i]

\* set16(SP, v) ended in unreachable! while get16(SP) reads the low half of esp
C11_Witness ==
    /\ call.op = "set16" /\ call.arg[1] = "SP"
    /\ panicked
    /\ get16_ok("SP") /\ get16(registers, "SP") = Trunc(registers.esp, 16)

---------------------------------------------------------------------------
(* Properties of the shifts and rotates. *)

\* C12: shl, shr and sar with a count of 0 return x and leave every flag as
\* it was, at every width.
C12_ShiftByZero ==
    (call.op \in {"shl", "shr", "sar"} /\ call.arg[2] = 0) =>
        /\ ~panicked
        /\ call.ret = call.arg[1]
        /\ registers.flags = call.pre

\* a shr by 0 of the 16-bit 0 with ZF clear and CF, DF, OF set before and after
C12_Witness ==
    /\ call.op = "shr" /\ call.arg = <<u16(0), 0>>
    /\ call.ret = u16(0)
    /\ call.pre = {"CF", "DF", "OF"}
    /\ registers.flags = {"CF", "DF", "OF"}

\* C13: shl of a 32-bit x by 32 returns 0 and sets CF to bit 0 of x.
C13_ShlBy32 ==
    (call.op = "shl" /\ Len(call.arg[1]) = 32 /\ call.arg[2] = 32) =>
        /\ ~panicked
        /\ call.ret = u32(0, 0)
        /\ ("CF" \in registers.flags) <=> (call.arg[1][1] = 1)

\* shl of 0x80000001 by 32 returned the operand itself, with CF set
C13_Witness ==
    /\ call.op = "shl" /\ call.arg = <<u32(\h8000, 1), 32>>
    /\ ~panicked
    /\ call.ret = u32(\h8000, 1)
    /\ "CF" \in registers.flags

\* C14: ror rm32, cl writes out = x rotated right by the count, sets CF to
\* bit 31 of out and OF to bit 31 of out XOR bit 30 of out (so no other bit
\* of out influences OF).
C14_RorFlags ==
    call.op = "ror" =>
        LET x == call.arg[1]
            c == call.arg[2]
            out == call.ret
        IN  /\ ~panicked
            /\ \A i \in 0..31 : out[i + 1] = x[((i + c) % 32) + 1]
            /\ ("CF" \in registers.flags) <=> (out[32] = 1)
            /\ ("OF" \in registers.flags) <=> (out[32] # out[31])

\* ror of 2 by 8: out = 0x02000000 has bits 31 and 30 clear, and OF is set
C14_Witness ==
    /\ call.op = "ror" /\ call.arg = <<u32(0, 2), 8>>
    /\ call.ret = u32(\h0200, 0)
    /\ "OF" \in registers.flags /\ "CF" \notin registers.flags

---------------------------------------------------------------------------
(* Properties of the divisions. *)

\* the 64-bit word is the sign extension of its low 32 bits
FitsI32(q) == \A i \in 33..64 : q[i] = q[32]

\* C15: an idiv rm32 whose signed quotient does not fit in 32 bits does not
\* complete as a normal step (it reports a divide error or traps) and writes
\* no truncated quotient into eax.
C15_IdivOverflowTraps ==
    (call.op = "idiv"
        /\ ~is_zero(call.arg[1])
        /\ ~signed_div_overflows(edx_eax(call.pre), SignExt(call.arg[1], 64))
        /\ ~FitsI32(signed_div(edx_eax(call.pre), SignExt(call.arg[1], 64)).quot)) =>
        /\ panicked \/ call.err # ""
        /\ registers.eax = call.pre.eax

\* idiv of edx:eax = 0x0000_0000_8000_0000 by 1 returned Ok with the
\* quotient 2^31 truncated into eax
C15_Witness ==
    /\ call.op = "idiv" /\ call.arg = <<u32(0, 1)>>
    /\ call.pre.edx = u32(0, 0) /\ call.pre.eax = u32(\h8000, 0)
    /\ ~panicked /\ call.err = ""
    /\ registers.eax = u32(\h8000, 0) /\ registers.edx = u32(0, 0)

\* C16: div rm32 and idiv rm32 with a divisor of 0 return a DivideByZero
\* error from the handler instead of aborting the host, and leave eax and
\* edx unchanged.
C16_DivideByZeroError ==
    (call.op \in {"div", "idiv"} /\ is_zero(call.arg[1])) =>
        /\ ~panicked
        /\ call.err = "DivideByZero"
        /\ registers.eax = call.pre.eax /\ registers.edx = call.pre.edx

\* a div of 7 by 0 that ended in a panic
C16_Witness ==
    /\ call.op = "div" /\ call.arg = <<u32(0, 0)>>
    /\ call.pre.eax = u32(0, 7)
    /\ panicked

\* the divisions agree with arithmetic where they complete: -7 / 2 is -3 with
\* remainder -1, and 7 / 2 unsigned is 3 with remainder 1
DivSanity ==
    /\ (call.op = "idiv" /\ call.arg = <<u32(0, 2)>>
           /\ call.pre.edx = u32(\hFFFF, \hFFFF) /\ call.pre.eax = u32(\hFFFF, \hFFF9)) =>
           (registers.eax = u32(\hFFFF, \hFFFD) /\ registers.edx = u32(\hFFFF, \hFFFF))
    /\ (call.op = "div" /\ call.arg = <<u32(0, 2)>>
           /\ call.pre.edx = u32(0, 0) /\ call.pre.eax = u32(0, 7)) =>
           (registers.eax = u32(0, 3) /\ registers.edx = u32(0, 1))
    /\ (call.op = "div" /\ call.arg = <<u32(0, 3)>>
           /\ call.pre.edx = u32(0, 1) /\ call.pre.eax = u32(0, 0)) =>
           (registers.eax = u32(\h5555, \h5555) /\ registers.edx = u32(0, 1))

---------------------------------------------------------------------------
(* Properties of the effective address. *)

\* the value Registers::get is to give for a register of a memory operand
RegOrZero(r, name) == IF name = "None" THEN u32(0, 0) ELSE r[FieldOf(name)]

\* C17: X86::addr returns reg(base) + reg(index) * scale + disp32 modulo 2^32
\* for every scale in {1, 2, 4, 8}, a None register contributing 0; operands
\* with scale 2, 4 or 8 are computed, not rejected.  (lea stores addr in its
\* destination register.)
C17_AddrScaled ==
    (call.op = "step" /\ call.arg.code = "Lea_r32_m"
        /\ call.arg.memory_index_scale \in {1, 2, 4, 8}
        /\ Within(call.pre.regs.eip, 0, call.pre.mem.len)) =>
        LET pre == call.pre.regs
            instr == call.arg
            shift == CASE instr.memory_index_scale = 1 -> 0
                       [] instr.memory_index_scale = 2 -> 1
                       [] instr.memory_index_scale = 4 -> 2
                       [] instr.memory_index_scale = 8 -> 3
            scaled == Shl(RegOrZero(pre, instr.memory_index), shift)
            sum == SumOf(SumOf(RegOrZero(pre, instr.memory_base), scaled).result,
                         instr.memory_displacement32).result
        IN  /\ ~panicked
            /\ regs[FieldOf(instr.op0_register)] = sum

\* lea eax, [ebx + ecx*4 + 8] ended in the panic of the assert on the scale
C17_Witness ==
    /\ call.op = "step" /\ call.arg.code = "Lea_r32_m"
    /\ call.arg.memory_index = "ECX" /\ call.arg.memory_index_scale = 4
    /\ panicked

---------------------------------------------------------------------------
(* Properties of the generated shims. *)

RECURSIVE BytesToNul(_, _)
\* the bytes of memory m from address a up to, not including, the first NUL
BytesToNul(m, a) ==
    IF mem_get(m, a) = 0 THEN <<>> ELSE <<mem_get(m, a)>> \o BytesToNul(m, a + 1)

\* what the k-th declared stack parameter is to receive from the machine pre
StackParam(pre, k, type) ==
    LET w == WordAt(pre.mem, ToNat(pre.regs.esp) + 4 * (k - 1))
    IN  IF type = "str" THEN BytesToNul(pre.mem, ToNat(w)) ELSE w

\* the value the body of the API returns on these arguments
BodyOf(op, name, args) ==
    IF op = "winapi_shim" THEN api_body(name, args) ELSE hello_body(name, args)

\* C18: every generated shim of an API with N stack parameters pops exactly N
\* words; the first declared parameter receives the word on top of the stack
\* and the k-th the k-th word; a &str parameter receives the bytes of guest
\* memory from the popped pointer up to the first NUL; afterwards esp is its
\* prior value plus 4*N and eax holds the value the body returned (the length
\* 5 for "hello\0").
C18_ShimContract ==
    call.op \in {"winapi_shim", "hello_shim"} =>
        LET pre == call.pre
            name == call.arg[1]
            types == call.arg[2]
            expected == [k \in 1..Len(types) |-> StackParam(pre, k, types[k])]
        IN  /\ ~panicked
            /\ call.ret = expected
            /\ regs.esp = Plus(pre.regs.esp, 4 * Len(types))
            /\ regs.eax = BodyOf(call.op, name, expected)

\* the shim of strlen ran on a pointer to "hello\0" and left eax as it was
C18_Witness ==
    /\ call.op = "hello_shim" /\ call.arg[1] = "strlen"
    /\ ~panicked
    /\ call.ret = <<StrHello>>
    /\ regs.eax = call.pre.regs.eax
    /\ regs.eax # u32(0, 5)

---------------------------------------------------------------------------
(* Properties of the loader. *)

\* load_exe returned Ok for this file
Loaded == call.op = "load_exe" /\ ~panicked /\ call.err = ""

\* C19: after load_exe of a PE with two sections at VA 0x1000 and VA 0x2000,
\* each of size 0x1000, the load has succeeded and the mapping list is exactly
\* [null guard, section 1, section 2, stack] in that order: the stack mapping
\* is the last element and has the highest addr.
C19_StackMappedLast ==
    (call.op = "load_exe" /\ call.arg.parses /\ call.arg.sections = TwoSections) =>
        LET base == call.arg.image_base
        IN  /\ Loaded
            /\ Len(mappings) = 4
            /\ mappings[1] = AppState_new[1]
            /\ mappings[2].addr = SumOf(base, u32(0, \h1000)).result
            /\ mappings[2].size = u32(0, \h1000)
            /\ mappings[3].addr = SumOf(base, u32(0, \h2000)).result
            /\ mappings[3].size = u32(0, \h1000)
            /\ mappings[4].desc = "stack"
            /\ \A i \in 1..3 : Lt(mappings[i].addr, mappings[4].addr)

\* the two-section PE is loaded and the stack is the second mapping, below
\* both sections
C19_Witness ==
    /\ Loaded /\ call.arg.sections = TwoSections
    /\ Len(mappings) = 4
    /\ mappings[2].desc = "stack"
    /\ Lt(mappings[2].addr, mappings[3].addr)

\* the mapping alloc made for the stack
StackMapping == mappings[CHOOSE i \in 1..Len(mappings) : mappings[i].desc = "stack"]

\* C20: after load_exe returns Ok the stack mapping has the size
\* size_of_stack_reserve when that is at most 1 MiB and the size 32 KiB when
\* it is larger; esp = ebp = stack.addr + stack.size - 4, an address inside
\* the stack mapping; and eip = image_base + address_of_entry_point.
C20_StackAndEntry ==
    Loaded =>
        LET file == call.arg
            stack == StackMapping
            high == SumOf(stack.addr, stack.size).result
        IN  /\ stack.size = IF Le(file.size_of_stack_reserve, u32(\h0010, 0))
                            THEN file.size_of_stack_reserve ELSE u32(0, \h8000)
            /\ regs.esp = DiffOf(high, u32(0, 4)).result
            /\ regs.ebp = regs.esp
            /\ Le(stack.addr, regs.esp) /\ Lt(regs.esp, high)
            /\ regs.eip = SumOf(file.image_base, file.address_of_entry_point).result

\* a PE that reserves no stack is loaded with esp below its empty stack mapping
C20_Witness ==
    /\ Loaded
    /\ call.arg.size_of_stack_reserve = u32(0, 0)
    /\ StackMapping.size = u32(0, 0)
    /\ Lt(regs.esp, StackMapping.addr)

---------------------------------------------------------------------------
(* Properties of the stack frame. *)

\* C21: `enter imm16, 0` executed with ebp = B and esp = S, where
\* S - 4 - imm16 >= 0 and the word at S - 4 is within memory, leaves B in the
\* word at S - 4, ebp = S - 4 and esp = S - 4 - imm16, and changes no
\* general-purpose register other than ebp and esp.
C21_EnterFrame ==
    (call.op = "step" /\ call.arg.code = "Enterd_imm16_imm8"
        /\ Within(call.pre.regs.eip, 0, call.pre.mem.len)
        /\ Within(call.pre.regs.esp, 4 + ToNat(call.arg.imm16), call.pre.mem.len)) =>
        LET pre == call.pre.regs
            S == ToNat(pre.esp)
        IN  /\ ~panicked
            /\ WordAt(mem, S - 4) = pre.ebp
            /\ regs.ebp = NatBits(S - 4, 32)
            /\ regs.esp = NatBits(S - 4 - ToNat(call.arg.imm16), 32)
            /\ \A r \in {"eax", "ecx", "edx", "ebx", "esi", "edi"} : regs[r] = pre[r]

\* enter 0x10, 0 has run on a frame pointer that differs from the new one
C21_Witness ==
    /\ Stepped("Enterd_imm16_imm8")
    /\ call.arg.imm16 = u16(\h10)
    /\ Small(call.pre.regs.esp)
    /\ regs.esp = Plus(call.pre.regs.esp, -20)
    /\ WordAt(mem, ToNat(regs.ebp)) = call.pre.regs.ebp
    /\ regs.ebp # call.pre.regs.ebp

---------------------------------------------------------------------------
(* Properties of alloc. *)

\* n rounded up to the next multiple of the page size 0x1000
RoundUp(n) == ((n + 4095) \div 4096) * 4096

\* the index i of the lowest gap of ms, between ms[i] and ms[i + 1], whose
\* length from the page-aligned end of ms[i] exceeds size; 0 if there is none
LowestGap(ms, size) ==
    LET Start(i) == RoundUp(ToNat(ms[i].addr) + ToNat(ms[i].size))
        gaps == {i \in 1..(Len(ms) - 1) :
                    /\ ToNat(ms[i + 1].addr) >= Start(i)
                    /\ ToNat(ms[i + 1].addr) - Start(i) > size}
    IN  IF gaps = {} THEN 0 ELSE CHOOSE i \in gaps : \A j \in gaps : i <= j

\* C22: every Mapping alloc(size, desc) returns has an addr that is a
\* multiple of 0x1000 and at least NULL_POINTER_REGION_SIZE (the null guard
\* stays the first mapping), has exactly the requested size, and starts the
\* lowest-addressed gap between existing mappings whose page-aligned length
\* exceeds size; all mappings that existed before are still there with their
\* addr and size.
C22_AllocPlacement ==
    (call.op = "alloc" /\ ~panicked) =>
        LET pre == call.pre
            ret == call.ret
            g == LowestGap(pre, ToNat(call.arg))
        IN  /\ \A i \in 1..12 : ret.addr[i] = 0
            /\ Le(NULL_POINTER_REGION_SIZE, ret.addr)
            /\ mappings[1] = AppState_new[1]
            /\ ret.size = call.arg
            /\ g # 0
            /\ ret.addr = NatBits(RoundUp(ToNat(pre[g].addr) + ToNat(pre[g].size)), 32)
            /\ mappings = Insert(pre, g + 1, ret)

\* alloc returned a mapping that it put in front of a mapping with a lower
\* addr
C22_Witness ==
    /\ call.op = "alloc" /\ ~panicked
    /\ \E i \in 1..(Len(mappings) - 1) :
           /\ mappings[i] = call.ret
           /\ Gt(mappings[i].addr, mappings[i + 1].addr)

---------------------------------------------------------------------------
(* Properties of the handlers of math.rs. *)

\* the last call was one of the sbb handlers
SbbCalled == call.op \in {"sbb_r32_rm32", "sbb_rm32_r32", "sbb_r8_rm8"}

\* x - y - c as the claim computes it: the low W bits, and the borrow out of
\* either subtraction (x < y + c without wrap-around)
BorrowOf(x, y, c) ==
    LET d1 == DiffOf(x, y)
        d2 == DiffOf(d1.result, NatBits(c, Len(x)))
    IN  [result |-> d2.result, carry |-> d1.carry \/ d2.carry]

\* C23: for every x, y and incoming carry c, each sbb handler returns
\* normally, writes (x - y - c) mod 2^W to the destination and sets CF exactly
\* when x < y + c computed without wrap-around; for y = 2^W - 1 and c = 1 the
\* result is x and CF = 1.
C23_SbbBorrow ==
    SbbCalled =>
        LET x == call.arg[1]
            y == call.arg[2]
            c == IF "CF" \in call.pre THEN 1 ELSE 0
            d == BorrowOf(x, y, c)
        IN  /\ ~panicked
            /\ call.ret = d.result
            /\ ("CF" \in registers.flags) = d.carry
            /\ (c = 1 /\ \A i \in 1..Len(y) : y[i] = 1) =>
                   (call.ret = x /\ "CF" \in registers.flags)

\* sbb r32, rm32 with y = 0xFFFFFFFF and the carry set returned x with CF clear
C23_Witness ==
    /\ call.op = "sbb_r32_rm32" /\ ~panicked
    /\ "CF" \in call.pre
    /\ \A i \in 1..32 : call.arg[2][i] = 1
    /\ call.ret = call.arg[1]
    /\ "CF" \notin registers.flags

\* the flags the generic helper leaves for this result: ZF and SF from the
\* result, OF clear, the others as before
LogicFlags(before, result) ==
    ((before \ {"ZF", "SF", "OF"})
        \cup (IF \A i \in 1..Len(result) : result[i] = 0 THEN {"ZF"} ELSE {}))
        \cup (IF result[Len(result)] = 1 THEN {"SF"} ELSE {})

\* C24: an `and` of the same two operand values gives the same destination
\* value and the same flags in every encoding: `and r32, rm32` and
\* `and rm32, r32` both store x & y and both update ZF, SF and OF through the
\* generic helper, and `and rm32, imm8` and-s with the same sign-extended
\* immediate whether the destination is a register or memory.
C24_AndEncodings ==
    /\ call.op \in {"and_r32_rm32", "and_rm32_r32"} =>
           /\ ~panicked
           /\ call.ret = [i \in 1..32 |-> call.arg[1][i] * call.arg[2][i]]
           /\ registers.flags = LogicFlags(call.pre, call.ret)
    /\ call.op = "and_rm32_imm8" =>
           /\ ~panicked
           /\ call.ret = [i \in 1..32 |->
                             call.arg[1][i] * call.arg[2][IF i < 8 THEN i ELSE 8]]

\* and r32, rm32 produced a zero result and left ZF clear
C24_Witness ==
    /\ call.op = "and_r32_rm32" /\ ~panicked
    /\ \A i \in 1..32 : call.ret[i] = 0
    /\ "ZF" \notin registers.flags

\* C25: inc and dec at widths 8 and 32 return normally for every operand
\* value, wrap modulo 2^W (inc of 2^W - 1 gives 0, dec of 0 gives 2^W - 1),
\* and leave CF exactly as it was before the instruction.
C25_IncDecKeepCarry ==
    LET x == call.arg[1]
        unit == NatBits(1, Len(x))
    IN  /\ call.op \in {"inc_rm32", "inc_rm8"} =>
               /\ ~panicked
               /\ call.ret = SumOf(x, unit).result
               /\ ("CF" \in registers.flags) = ("CF" \in call.pre)
        /\ call.op \in {"dec_rm32", "dec_rm8"} =>
               /\ ~panicked
               /\ call.ret = DiffOf(x, unit).result
               /\ ("CF" \in registers.flags) = ("CF" \in call.pre)

\* dec of 0 wrapped to 2^32 - 1 and set a carry flag that was clear
C25_Witness ==
    /\ call.op = "dec_rm32" /\ ~panicked
    /\ \A i \in 1..32 : call.arg[1][i] = 0 /\ call.ret[i] = 1
    /\ "CF" \notin call.pre
    /\ "CF" \in registers.flags

---------------------------------------------------------------------------
(* Properties of the FPU accessors. *)

\* the number i of the register STi
StNumber(reg) == CASE reg = "ST0" -> 0 [] reg = "ST1" -> 1 [] reg = "ST2" -> 2

\* C26: for every st_top in 0..8 the FPU accessors never index outside the
\* eight-entry st array: st_top(), getst(STi) and st_swap(STi, STj) resolve
\* each STi to the lane (st_top + i) mod 8, a lane in 0..7, also when st_top
\* is 7 with ST1 and when st_top is 8 (the empty stack).
C26_StLanes ==
    call.op \in {"st_top", "getst", "st_swap"} =>
        LET top == call.pre
            wanted == IF call.op = "st_top" THEN <<top % 8>>
                      ELSE [k \in 1..Len(call.arg) |-> (top + StNumber(call.arg[k])) % 8]
        IN  /\ ~panicked
            /\ call.ret = wanted
            /\ \A k \in 1..Len(call.ret) : call.ret[k] \in 0..7

\* st_top() was called on the empty stack Registers::new leaves and indexed
\* lane 8
C26_Witness ==
    /\ call.op = "st_top" /\ call.pre = 8
    /\ call.ret = <<8>>
    /\ panicked

====
